---- MODULE Spec2Model ----
(***************************************************************************)
(* Model of the fishbowl permission mediation core: the rules engine, the  *)
(* config store, the permission queue with its waiters and events, the     *)
(* exec broker, the network proxy and the graceful shutdown sequence.      *)
(*                                                                         *)
(* Strings that the code takes apart (rule strings, patterns, targets,    *)
(* host names) are sequences of one-character strings, so that parseRule, *)
(* matchPattern and isEndpointAllowed are computed the way the code       *)
(* computes them.  Identifiers that the code only compares as a whole     *)
(* (categories of a request, modes, statuses) are TLA+ strings.           *)
(***************************************************************************)
EXTENDS Integers, Sequences, FiniteSets, TLC

(***************************************************************************)
(* Bounds of the model.                                                    *)
(***************************************************************************)
\* total number of rules (allow + deny) held by the rule set
MaxRules == 2

(***************************************************************************)
(* String helpers (JavaScript String methods on character sequences).      *)
(***************************************************************************)
\* String.prototype.indexOf for a single character; 0 when absent (JS: -1),
\* otherwise the 1-based position of the first occurrence
IndexOf(s, ch) ==
  IF \E i \in 1..Len(s) : s[i] = ch
  THEN CHOOSE i \in 1..Len(s) : s[i] = ch /\ \A j \in 1..(i - 1) : s[j] # ch
  ELSE 0

\* String.prototype.endsWith
EndsWith(s, suffix) ==
  /\ Len(suffix) <= Len(s)
  /\ SubSeq(s, Len(s) - Len(suffix) + 1, Len(s)) = suffix

(***************************************************************************)
(* Category names as character sequences (rules.ts compares the slice of   *)
(* the rule string against these).                                         *)
(***************************************************************************)
Categories == {"network", "filesystem", "git", "packages", "sandbox", "exec"}

CatChars(c) ==
  CASE c = "network"    -> <<"n","e","t","w","o","r","k">>
    [] c = "filesystem" -> <<"f","i","l","e","s","y","s","t","e","m">>
    [] c = "git"        -> <<"g","i","t">>
    [] c = "packages"   -> <<"p","a","c","k","a","g","e","s">>
    [] c = "sandbox"    -> <<"s","a","n","d","b","o","x">>
    [] c = "exec"       -> <<"e","x","e","c">>

VALID_CATEGORIES == { CatChars(c) : c \in Categories }

(***************************************************************************)
(* rules.ts                                                                *)
(***************************************************************************)
ParsedNull == [ok |-> FALSE, category |-> <<>>, pattern |-> <<>>]

\* parseRule(rule): ParsedRule | null
parseRule(rule) ==
  LET parenIdx == IndexOf(rule, "(") IN
  IF parenIdx = 0
  THEN IF rule \notin VALID_CATEGORIES
       THEN ParsedNull
       ELSE [ok |-> TRUE, category |-> rule, pattern |-> <<"*">>]
  ELSE LET category == SubSeq(rule, 1, parenIdx - 1)
           sliced   == SubSeq(rule, parenIdx + 1, Len(rule))
           pattern  == IF EndsWith(sliced, <<")">>)
                       THEN SubSeq(sliced, 1, Len(sliced) - 1)
                       ELSE sliced
       IN IF category \notin VALID_CATEGORIES THEN ParsedNull
          ELSE IF pattern = <<>> THEN ParsedNull
          ELSE [ok |-> TRUE, category |-> category, pattern |-> pattern]

\* characters the regex `.` does not match
LineTerminators == {"\n", "\r"}

\* A compiled pattern is a sequence of tokens: a literal character, or
\* kind "any" (regex .*), "seg" (glob *: a run without "/"), "deep" (glob **).
Lit(ch) == [kind |-> "lit", ch |-> ch]
Tok(k)  == [kind |-> k, ch |-> ""]

\* "^" + escaped.replace(/\*+/g, ".*") + "$": every run of "*" becomes .*,
\* every other character is a literal (the escape step makes regex
\* metacharacters literal; "*" is not in the escaped class)
RECURSIVE GlobToRegex(_)
GlobToRegex(p) ==
  IF p = <<>> THEN <<>>
  ELSE IF Head(p) = "*"
       THEN IF Len(p) >= 2 /\ p[2] = "*"
            THEN GlobToRegex(Tail(p))
            ELSE <<Tok("any")>> \o GlobToRegex(Tail(p))
       ELSE <<Lit(Head(p))>> \o GlobToRegex(Tail(p))

\* Bun.Glob compilation as documented at matchPattern: * = one segment,
\* ** = recursive
RECURSIVE GlobToPath(_)
GlobToPath(p) ==
  IF p = <<>> THEN <<>>
  ELSE IF Head(p) = "*"
       THEN IF Len(p) >= 2 /\ p[2] = "*"
            THEN <<Tok("deep")>> \o GlobToPath(SubSeq(p, 3, Len(p)))
            ELSE <<Tok("seg")>> \o GlobToPath(Tail(p))
       ELSE <<Lit(Head(p))>> \o GlobToPath(Tail(p))

\* anchored match of a compiled pattern against a target
RECURSIVE TokensMatch(_, _)
TokensMatch(re, t) ==
  IF re = <<>> THEN t = <<>>
  ELSE LET h == Head(re) IN
       CASE h.kind = "lit"  -> /\ t # <<>>
                               /\ Head(t) = h.ch
                               /\ TokensMatch(Tail(re), Tail(t))
         [] h.kind = "any"  -> \/ TokensMatch(Tail(re), t)
                               \/ /\ t # <<>>
                                  /\ Head(t) \notin LineTerminators
                                  /\ TokensMatch(re, Tail(t))
         [] h.kind = "seg"  -> \/ TokensMatch(Tail(re), t)
                               \/ /\ t # <<>>
                                  /\ Head(t) # "/"
                                  /\ TokensMatch(re, Tail(t))
         [] h.kind = "deep" -> \/ TokensMatch(Tail(re), t)
                               \/ /\ t # <<>>
                                  /\ TokensMatch(re, Tail(t))

\* matchPattern(pattern, target, category)
matchPattern(pattern, target, category) ==
  IF pattern = <<"*">> THEN TRUE
  ELSE IF category = "filesystem"
       THEN TokensMatch(GlobToPath(pattern), target)
       ELSE TokensMatch(GlobToRegex(pattern), target)

\* one iteration of the deny loop: does this rule make evaluateRules return?
DenyHit(rule, category, matchTarget) ==
  LET parsed == parseRule(rule) IN
  /\ parsed.ok
  /\ parsed.category = CatChars(category)
  /\ matchPattern(parsed.pattern, matchTarget, category)

\* the allow loop without the safety skip
AllowHitNoSkip(rule, category, matchTarget) ==
  LET parsed == parseRule(rule) IN
  /\ parsed.ok
  /\ parsed.category = CatChars(category)
  /\ matchPattern(parsed.pattern, matchTarget, category)

\* one iteration of the allow loop, with the bare exec/packages safety skip
AllowHit(rule, category, matchTarget) ==
  LET parsed == parseRule(rule) IN
  /\ parsed.ok
  /\ parsed.category = CatChars(category)
  /\ ~ ( /\ parsed.category \in {CatChars("exec"), CatChars("packages")}
         /\ parsed.pattern = <<"*">> )
  /\ matchPattern(parsed.pattern, matchTarget, category)

\* evaluateRules with the allow rules checked before the deny rules
evaluateRulesAllowFirst(rs, category, matchTarget) ==
  IF \E i \in 1..Len(rs.allow) : AllowHit(rs.allow[i], category, matchTarget)
  THEN "allow"
  ELSE IF \E i \in 1..Len(rs.deny) : DenyHit(rs.deny[i], category, matchTarget)
       THEN "deny"
       ELSE "null"

\* evaluateRules(rules, category, matchTarget): "allow" | "deny" | "null"
evaluateRules(rs, category, matchTarget) ==
  IF \E i \in 1..Len(rs.deny) : DenyHit(rs.deny[i], category, matchTarget)
  THEN "deny"
  ELSE IF \E i \in 1..Len(rs.allow) : AllowHit(rs.allow[i], category, matchTarget)
       THEN "allow"
       ELSE "null"

(***************************************************************************)
(* State.                                                                  *)
(***************************************************************************)
VARIABLES
  \* config.ts: `current`
  rules,             \* current.rules: [allow, deny], lists of rule strings
  categories,        \* current.categories: [defined, map]
  allowedEndpoints,  \* current.allowedEndpoints: list of host suffixes
  \* observations of the last pure call made by a caller
  evalArgs,          \* arguments of the last evaluateRules call
  verdict,           \* its result ("unset" before the first call)
  modeArgs,          \* argument of the last getCategoryMode call
  modeResult,        \* its result ("unset" before the first call)
  cfgCall,           \* last config call: [op, ret]
  \* queue.ts: the PermissionQueue instance and what it hands out
  requests,          \* this.requests: id N (of "req-N") -> PermissionRequest
  waiters,           \* this.waiters: the ids that have a resolver registered
  counter,           \* this.counter
  promise,           \* the promise returned by request(): id -> settled value
  log,               \* events emitted and resolvers called, in order
  lastCall,          \* last queue call made from outside: [op, ok, n]
  persistTimer,      \* this.persistTimer: TRUE when it holds a timer
  timers,            \* the setTimeout callbacks of schedulePersist not yet run
  \* exec.ts
  execRequests,      \* the ExecRequest records, in order of submission
  \* proxy.ts
  proxies,           \* the proxy requests handled, in order of arrival
  \* server.ts: gracefulShutdown
  pc,                \* "running", "syncing" (awaiting fullSync), "exited"
  syncMark,          \* the queue's counter when fullSync was started
  shutdownDenied,    \* the ids of queue.pending() that the shutdown denied
  \* server.ts: the approve / deny handlers; sync.ts: the agent's workspace
  flows,             \* the approve / deny calls handled, in order of arrival
  files,             \* content of the workspace file at each targetFile
  \* sync.ts, git-sync.ts, packages.ts
  syncs,             \* the requestFileSync calls, in order of arrival
  hostFiles,         \* the paths syncFile copied to the host project
  gitSyncs,          \* the requestGitSync calls, in order of arrival
  pkgRequests,       \* the PackageRequest records, in order of submission
  \* the files under data/ and the live mirror
  queueFile,         \* data/queue.json: the array last written, by id
  writes,            \* the Bun.write calls of persist() still in flight
  auditLog,          \* data/audit.log: the entries appended, in order
  liveSync,          \* sync.ts: the polling mirror (checkInterval, syncTimer)
  watch              \* sync.ts: the watching mirror (watcher, pending, timer)

policyVars == <<rules, categories, allowedEndpoints>>
obsVars    == <<evalArgs, verdict, modeArgs, modeResult, cfgCall>>
persistVars == <<persistTimer, timers>>
queueVars  == <<requests, waiters, counter, promise, log, lastCall, persistVars>>
brokerVars == <<syncs, hostFiles, gitSyncs, pkgRequests>>
ioVars     == <<queueFile, writes, auditLog, liveSync, watch>>
sysVars    == <<execRequests, proxies, pc, syncMark, shutdownDenied, flows, files,
               brokerVars, ioVars>>
vars == <<rules, categories, allowedEndpoints,
          evalArgs, verdict, modeArgs, modeResult, cfgCall,
          requests, waiters, counter, promise, log, lastCall,
          execRequests, proxies, pc, syncMark, shutdownDenied, flows, files,
          syncs, hostFiles, gitSyncs, pkgRequests,
          persistTimer, timers, queueFile, writes, auditLog, liveSync, watch>>

(***************************************************************************)
(* Inputs of the rules engine.                                             *)
(***************************************************************************)
rExecBare     == CatChars("exec")
rExecStar     == CatChars("exec") \o <<"(","*",")">>
rExecLs       == CatChars("exec") \o <<"(","l","s",")">>
rExecLStar    == CatChars("exec") \o <<"(","l","*",")">>
rExecStarStar == CatChars("exec") \o <<"(","*","*",")">>
rExecEmpty    == CatChars("exec") \o <<"(",")">>
rPkgBare      == CatChars("packages")
rPkgStar      == CatChars("packages") \o <<"(","*",")">>
rNetDotX      == CatChars("network") \o <<"(","*",".","x",")">>
rFsDir        == CatChars("filesystem") \o <<"(","s","/","*",")">>
rBogus        == <<"b","o","g","u","s","(","l","s",")">>

RuleStrings == {rExecBare, rExecStar, rExecLs, rExecLStar, rExecStarStar,
                rExecEmpty, rPkgBare, rPkgStar, rNetDotX, rFsDir, rBogus}

tLs      == <<"l","s">>
tRm      == <<"r","m">>
tHost    == <<"e",".","x">>
tFile    == <<"s","/","f">>
tDeep    == <<"s","/","d","/","f">>

Targets == {tLs, tRm, tHost, tFile, tDeep}

SeqsUpTo(S, n) == UNION { [1..k -> S] : k \in 0..n }

RuleSets ==
  { rs \in [allow : SeqsUpTo(RuleStrings, MaxRules),
            deny  : SeqsUpTo(RuleStrings, MaxRules)] :
      Len(rs.allow) + Len(rs.deny) <= MaxRules }

NoRules == [allow |-> <<>>, deny |-> <<>>]

(***************************************************************************)
(* config.ts                                                               *)
(***************************************************************************)
Modes == {"approve-each", "approve-bulk", "allow-all", "deny-all"}

\* value of current.categories[c]: "undefined" (no entry), "nomode" (an
\* entry without a mode field), or m for the entry {mode: m}
CatValues == Modes \cup {"undefined", "nomode"}

\* DEFAULT_CONFIG (types.ts): no exec entry, no rules
DefaultCategories ==
  [defined |-> TRUE,
   map |-> [c \in Categories |->
              IF c = "exec" THEN "undefined" ELSE "approve-each"]]

hAnthropic == <<"a",".","c">>
DefaultEndpoints == <<hAnthropic>>

\* getRules()
getRules == rules

\* getCategoryMode(category); "TypeError" when current.categories is missing
\* getCategoryMode without the exec/packages guard
getCategoryModeUnguarded(category) ==
  IF ~categories.defined THEN "TypeError"
  ELSE IF categories.map[category] \in {"undefined", "nomode"}
       THEN "approve-each"
       ELSE categories.map[category]

getCategoryMode(category) ==
  IF category = "exec" \/ category = "packages" THEN "approve-each"
  ELSE IF ~categories.defined THEN "TypeError"
  ELSE IF categories.map[category] \in {"undefined", "nomode"}
       THEN "approve-each"
       ELSE categories.map[category]

\* isEndpointAllowed(host)
isEndpointAllowed(host) ==
  \E i \in 1..Len(allowedEndpoints) :
     \/ host = allowedEndpoints[i]
     \/ EndsWith(host, <<".">> \o allowedEndpoints[i])

NoCall == [op |-> "none", ret |-> TRUE]

\* setCategoryMode(category, mode)
SetCategoryMode(category, mode) ==
  /\ categories.defined
  /\ IF (category = "exec" \/ category = "packages") /\ mode # "approve-each"
     THEN categories' = categories
     ELSE categories' = [categories EXCEPT !.map[category] = mode]
  /\ UNCHANGED <<rules, allowedEndpoints, obsVars, queueVars, sysVars>>

\* applyConfigChange(proposal), for proposal.path.split(".") = parts.  The
\* walk over `current` is spelled out for the paths into current.categories;
\* a first key that names no field of `current` makes the walk return false.
ConfigPaths ==
  { <<"categories", c, "mode">> : c \in Categories } \cup
  { <<"categories", c>> : c \in Categories } \cup
  { <<"nosuch", "key">> }

\* applyConfigChange(proposal) on current.categories -> [categories, ret]
applyConfigChange(cats, parts, value) ==
  CASE parts[1] # "categories" -> [categories |-> cats, ret |-> FALSE]
    [] parts[1] = "categories" /\ ~cats.defined -> [categories |-> cats, ret |-> FALSE]
    [] parts[1] = "categories" /\ cats.defined /\ Len(parts) = 2 ->
         [categories |-> [cats EXCEPT !.map[parts[2]] = value], ret |-> TRUE]
    [] parts[1] = "categories" /\ cats.defined /\ Len(parts) = 3 ->
         IF cats.map[parts[2]] = "undefined"
         THEN [categories |-> cats, ret |-> FALSE]
         ELSE [categories |-> [cats EXCEPT !.map[parts[2]] = value], ret |-> TRUE]

ApplyConfigChange(parts, value) ==
  /\ parts \in ConfigPaths
  /\ value \in CatValues \ {"undefined"}
  /\ LET r == applyConfigChange(categories, parts, value) IN
       /\ categories' = r.categories
       /\ cfgCall' = [op |-> "applyConfigChange", ret |-> r.ret]
  /\ UNCHANGED <<rules, allowedEndpoints, evalArgs, verdict, modeArgs, modeResult, queueVars, sysVars>>

\* loadConfig(): `current` becomes whatever the config file holds (a missing
\* rules field is patched); a file that fails to parse gives DEFAULT_CONFIG
PersistedCategories ==
  { DefaultCategories,
    [defined |-> FALSE, map |-> [c \in Categories |-> "undefined"]],
    [defined |-> TRUE,  map |-> [c \in Categories |-> "allow-all"]],
    [defined |-> TRUE,  map |-> [c \in Categories |-> "deny-all"]],
    [defined |-> TRUE,  map |-> [c \in Categories |-> "nomode"]] }

LoadConfig(fileCategories) ==
  /\ fileCategories \in PersistedCategories
  /\ categories' = fileCategories
  /\ UNCHANGED <<rules, allowedEndpoints, obsVars, queueVars, sysVars>>

\* a caller reads getCategoryMode(category)
GetCategoryMode(category) ==
  /\ modeArgs' = category
  /\ modeResult' = getCategoryMode(category)
  /\ UNCHANGED <<rules, categories, allowedEndpoints, evalArgs, verdict, cfgCall, queueVars, sysVars>>

\* a caller evaluates the current rules for (category, target)
EvaluateRules(category, target) ==
  /\ evalArgs' = [category |-> category, target |-> target]
  /\ verdict' = evaluateRules(getRules, category, target)
  /\ UNCHANGED <<rules, categories, allowedEndpoints, modeArgs, modeResult, cfgCall, queueVars, sysVars>>

(***************************************************************************)
(* queue.ts                                                                *)
(***************************************************************************)
\* number of requests the queue ever mints
MaxReq == 2

\* ids a caller may name: the minted ones and one that is never minted
AllIds == 0..MaxReq

NoFile == "none"

\* request metadata: targetFile, toolName ("none" when absent) and whether the
\* payload of the tool (writeContent, editContext) is present
\* metadata.proposal is a ConfigChangeProposal [parts, value], parts being
\* proposal.path.split("."), or NoProposal when the metadata has none
NoProposal == [parts |-> <<>>, value |-> "none"]

NoMeta == [targetFile |-> NoFile, toolName |-> "none", payload |-> FALSE,
           proposal |-> NoProposal]
ToolMeta(tool, file, payload) ==
  [targetFile |-> file, toolName |-> tool, payload |-> payload,
   proposal |-> NoProposal]
ProposalMeta(parts, value) ==
  [targetFile |-> NoFile, toolName |-> "none", payload |-> FALSE,
   proposal |-> [parts |-> parts, value |-> value]]

\* the queue state threaded through a call and the calls nested in it
QS == [requests |-> requests, waiters |-> waiters, counter |-> counter,
       promise |-> promise, log |-> log,
       persistTimer |-> persistTimer, timers |-> timers]

SetQ(q) ==
  /\ requests' = q.requests
  /\ waiters' = q.waiters
  /\ counter' = q.counter
  /\ promise' = q.promise
  /\ log' = q.log
  /\ persistTimer' = q.persistTimer
  /\ timers' = q.timers

\* Date.now(): a logical clock, the number of events emitted so far
Now(q) == Len(q.log) + 1

\* this.emit(type, req): the subscribers observe the event
emit(q, type, id) ==
  [q EXCEPT !.log = Append(@, [type |-> type, id |-> id])]

\* schedulePersist that sets a new timer whether or not one is outstanding
schedulePersistNoGuard(q) ==
  [q EXCEPT !.persistTimer = TRUE, !.timers = @ + 1]

\* schedulePersist(): if (this.persistTimer) return; else setTimeout(..., 100)
schedulePersist(q) ==
  IF q.persistTimer THEN q
  ELSE [q EXCEPT !.persistTimer = TRUE, !.timers = @ + 1]

\* what a subscriber does synchronously when it receives an event of type
\* `on`: nothing, or one call of queue.resolve / queue.request
NoReaction == [on |-> "none", op |-> "none", id |-> 0, status |-> "denied",
               category |-> "network", metadata |-> NoMeta]

RECURSIVE resolveOp(_, _, _, _, _)
RECURSIVE requestOp(_, _, _, _, _)

\* the listeners of `type` run inside emit
react(q, reaction, type) ==
  IF reaction.on # type THEN q
  ELSE CASE reaction.op = "resolve" ->
              resolveOp(q, reaction.id, reaction.status, "auto", NoReaction).q
         [] reaction.op = "request" ->
              requestOp(q, reaction.category, <<>>, reaction.metadata, NoReaction).q
         [] OTHER -> q

\* resolve without the check that the request is pending
resolveOpNoGuard(q, id, status, resolvedBy, reaction) ==
  IF id \notin DOMAIN q.requests
  THEN [q |-> q, ret |-> FALSE]
  ELSE LET q1 == [q EXCEPT !.requests[id].status = status,
                           !.requests[id].resolvedAt = Now(q),
                           !.requests[id].resolvedBy = resolvedBy]
           q2 == emit(schedulePersist(q1), "resolve", id)
           q3 == IF id \in q2.waiters
                 THEN [q2 EXCEPT !.waiters = @ \ {id}]
                 ELSE q2
       IN [q |-> q3, ret |-> TRUE]

\* resolve that calls the waiter before it emits the event
resolveOpWaiterFirst(q, id, status, resolvedBy, reaction) ==
  IF id \notin DOMAIN q.requests \/ q.requests[id].status # "pending"
  THEN [q |-> q, ret |-> FALSE]
  ELSE LET q1 == [q EXCEPT !.requests[id].status = status,
                           !.requests[id].resolvedAt = Now(q),
                           !.requests[id].resolvedBy = resolvedBy]
           q2 == IF id \in q1.waiters
                 THEN [q1 EXCEPT
                         !.promise[id] = IF status = "approved" THEN "true" ELSE "false",
                         !.log = Append(@, [type |-> "waiter", id |-> id]),
                         !.waiters = @ \ {id}]
                 ELSE q1
       IN [q |-> emit(schedulePersist(q2), "resolve", id), ret |-> TRUE]

\* resolve that signals every waiter with true, whatever the status
resolveOpSignalsTrue(q, id, status, resolvedBy, reaction) ==
  IF id \notin DOMAIN q.requests \/ q.requests[id].status # "pending"
  THEN [q |-> q, ret |-> FALSE]
  ELSE LET q1 == [q EXCEPT !.requests[id].status = status,
                           !.requests[id].resolvedAt = Now(q),
                           !.requests[id].resolvedBy = resolvedBy]
           q2 == emit(schedulePersist(q1), "resolve", id)
           q3 == IF id \in q2.waiters
                 THEN [q2 EXCEPT
                         !.promise[id] = "true",
                         !.log = Append(@, [type |-> "waiter", id |-> id]),
                         !.waiters = @ \ {id}]
                 ELSE q2
       IN [q |-> q3, ret |-> TRUE]

\* resolve(id, status, resolvedBy) -> [q, ret]
resolveOp(q, id, status, resolvedBy, reaction) ==
  IF id \notin DOMAIN q.requests \/ q.requests[id].status # "pending"
  THEN [q |-> q, ret |-> FALSE]
  ELSE LET q1 == [q EXCEPT !.requests[id].status = status,
                           !.requests[id].resolvedAt = Now(q),
                           !.requests[id].resolvedBy = resolvedBy]
           q2 == react(emit(schedulePersist(q1), "resolve", id), reaction, "resolve")
           q3 == IF id \in q2.waiters
                 THEN [q2 EXCEPT
                         !.promise[id] = IF @ = "pending"
                                         THEN (IF status = "approved" THEN "true" ELSE "false")
                                         ELSE @,
                         !.log = Append(@, [type |-> "waiter", id |-> id]),
                         !.waiters = @ \ {id}]
                 ELSE q2
       IN [q |-> q3, ret |-> TRUE]

\* request that denies every pending request carrying the same
\* metadata.targetFile value, whatever its category
requestOpSupersedesAll(q, category, action, metadata, reaction) ==
  LET id  == q.counter
      req == [category |-> category, action |-> action,
              targetFile |-> metadata.targetFile,
              toolName |-> metadata.toolName, payload |-> metadata.payload,
              proposal |-> metadata.proposal,
              status |-> "pending", resolvedBy |-> "none", resolvedAt |-> 0]
      q0  == [q EXCEPT !.requests =
                [i \in DOMAIN q.requests |->
                   IF q.requests[i].status = "pending" /\ q.requests[i].targetFile = metadata.targetFile
                   THEN [q.requests[i] EXCEPT !.status = "denied", !.resolvedBy = "auto"]
                   ELSE q.requests[i]]]
      q1  == [q0 EXCEPT !.counter = @ + 1,
                        !.requests = (id :> req) @@ @]
      q2  == emit(schedulePersist(q1), "request", id)
      q3  == [q2 EXCEPT !.waiters = @ \cup {id},
                        !.promise = (id :> "pending") @@ @]
  IN [q |-> q3, id |-> id]

\* request(category, action, description, reason, metadata) -> [q, id]
requestOp(q, category, action, metadata, reaction) ==
  LET id  == q.counter
      req == [category |-> category, action |-> action,
              targetFile |-> metadata.targetFile,
              toolName |-> metadata.toolName, payload |-> metadata.payload,
              proposal |-> metadata.proposal,
              status |-> "pending", resolvedBy |-> "none", resolvedAt |-> 0]
      q1  == [q EXCEPT !.counter = @ + 1,
                       !.requests = (id :> req) @@ @]
      q2  == react(emit(schedulePersist(q1), "request", id), reaction, "request")
      q3  == [q2 EXCEPT !.waiters = @ \cup {id},
                        !.promise = (id :> "pending") @@ @]
  IN [q |-> q3, id |-> id]

\* the ids of a map in iteration (insertion) order
RECURSIVE IdSeq(_)
IdSeq(S) ==
  IF S = {} THEN <<>>
  ELSE LET m == CHOOSE x \in S : \A y \in S : x <= y
       IN <<m>> \o IdSeq(S \ {m})

\* the loop of bulkResolve over this.requests.values()
RECURSIVE bulkLoop(_, _, _, _, _)
\* the loop leaving after the first request it resolved
bulkLoopStopsEarly(q, ids, category, status, resolvedBy) ==
  IF ids = <<>> THEN [q |-> q, count |-> 0]
  ELSE LET id == Head(ids) IN
       IF q.requests[id].category = category /\ q.requests[id].status = "pending"
       THEN [q |-> resolveOp(q, id, status, resolvedBy, NoReaction).q, count |-> 1]
       ELSE bulkLoop(q, Tail(ids), category, status, resolvedBy)

\* the loop without the test of the category
bulkLoopAnyCategory(q, ids, category, status, resolvedBy) ==
  IF ids = <<>> THEN [q |-> q, count |-> 0]
  ELSE LET id == Head(ids) IN
       IF q.requests[id].status = "pending"
       THEN LET r    == resolveOp(q, id, status, resolvedBy, NoReaction)
                rest == bulkLoop(r.q, Tail(ids), category, status, resolvedBy)
            IN [q |-> rest.q, count |-> rest.count + 1]
       ELSE bulkLoop(q, Tail(ids), category, status, resolvedBy)

bulkLoop(q, ids, category, status, resolvedBy) ==
  IF ids = <<>> THEN [q |-> q, count |-> 0]
  ELSE LET id == Head(ids) IN
       IF q.requests[id].category = category /\ q.requests[id].status = "pending"
       THEN LET r    == resolveOp(q, id, status, resolvedBy, NoReaction)
                rest == bulkLoop(r.q, Tail(ids), category, status, resolvedBy)
            IN [q |-> rest.q, count |-> rest.count + 1]
       ELSE bulkLoop(q, Tail(ids), category, status, resolvedBy)

\* bulkResolve(category, status, resolvedBy) -> [q, count]
bulkResolveOp(q, category, status, resolvedBy) ==
  bulkLoop(q, IdSeq(DOMAIN q.requests), category, status, resolvedBy)

\* pending()
pending(q) == { id \in DOMAIN q.requests : q.requests[id].status = "pending" }

\* ---- the queue's public methods as actions ----
Request(category, metadata, reaction) ==
  /\ counter < MaxReq
  /\ LET r == requestOp(QS, category, <<>>, metadata, reaction) IN
       /\ r.q.counter <= MaxReq
       /\ SetQ(r.q)
       /\ lastCall' = [op |-> "request", ok |-> TRUE, n |-> r.id]
  /\ UNCHANGED <<policyVars, obsVars, sysVars>>

\* resolve / approve / deny called from outside; op names the method, ok is
\* the value returned
ResolveCall(op, id, status, resolvedBy, reaction) ==
  /\ LET r == resolveOp(QS, id, status, resolvedBy, reaction) IN
       /\ r.q.counter <= MaxReq
       /\ SetQ(r.q)
       /\ lastCall' = [op |-> op, ok |-> r.ret, n |-> 0]
  /\ UNCHANGED <<policyVars, obsVars, sysVars>>

Resolve(id, status, resolvedBy, reaction) ==
  ResolveCall("resolve", id, status, resolvedBy, reaction)

\* approve(id, resolvedBy)
Approve(id, resolvedBy) ==
  ResolveCall("approve", id, "approved", resolvedBy, NoReaction)

\* deny(id, resolvedBy)
Deny(id, resolvedBy) ==
  ResolveCall("deny", id, "denied", resolvedBy, NoReaction)

BulkResolve(category, status, resolvedBy) ==
  /\ LET r == bulkResolveOp(QS, category, status, resolvedBy) IN
       /\ SetQ(r.q)
       /\ lastCall' = [op |-> "bulkResolve", ok |-> TRUE, n |-> r.count]
  /\ UNCHANGED <<policyVars, obsVars, sysVars>>

\* the callback of schedulePersist's timer: this.persistTimer = null, then
\* persist() serialises the whole request list and starts Bun.write
PersistTimerFires ==
  /\ pc # "exited"
  /\ timers > 0
  /\ persistTimer' = FALSE
  /\ timers' = timers - 1
  /\ writes' = Append(writes, requests)
  /\ UNCHANGED <<policyVars, obsVars, requests, waiters, counter, promise, log,
                 lastCall, execRequests, proxies, pc, syncMark, shutdownDenied,
                 flows, files, brokerVars, queueFile, auditLog, liveSync, watch>>

\* one Bun.write of persist() completes: the file holds the array it was given
WriteCompletes(k) ==
  /\ pc # "exited"
  /\ k \in 1..Len(writes)
  /\ queueFile' = writes[k]
  /\ writes' = SubSeq(writes, 1, k - 1) \o SubSeq(writes, k + 1, Len(writes))
  /\ UNCHANGED <<policyVars, obsVars, queueVars, execRequests, proxies, pc,
                 syncMark, shutdownDenied, flows, files, brokerVars, auditLog,
                 liveSync, watch>>

FooFile == "src/foo.ts"
BarFile == "src/bar.ts"

\* the target files of the workspace the model follows
Files == {FooFile, BarFile}

\* no file sync, git sync or package request made
InitBrokers ==
  /\ syncs = <<>>
  /\ hostFiles = {}
  /\ gitSyncs = <<>>
  /\ pkgRequests = <<>>

\* paths of the workspace, relative to its root, that the watcher reports
pGitHead   == <<".","g","i","t","/","H","E","A","D">>
pGitignore == <<".","g","i","t","i","g","n","o","r","e">>
pNodeMod   == <<"n","o","d","e","_","m","o","d","u","l","e","s","/","x">>
pSrc       == <<"s","r","c","/","a">>
pReadme    == <<"a",".","m","d">>
pLib       == <<"l","i","b","/","b">>
Paths == {pGitHead, pGitignore, pNodeMod, pSrc, pReadme, pLib}

\* the polling mirror after startLiveSync(): the readiness poll is set.
\* stopped, late and fullSyncs observe it: whether stopLiveSync was called,
\* the work begun after that, the fullSync calls gracefulShutdown has made
InitLiveSync == [checkInterval |-> TRUE, syncTimer |-> FALSE, stopped |-> FALSE,
                 late |-> {}, fullSyncs |-> 0]

\* the watching mirror after startLiveSync(); mirror is the host copy of each
\* path as the watcher left it: "none", "copied" or "removed"; event is the
\* filename of the last change the watcher reported
InitWatch    == [checkInterval |-> TRUE, watcher |-> FALSE, pending |-> {},
                 timer |-> FALSE, stopped |-> FALSE, event |-> <<>>,
                 mirror |-> [p \in Paths |-> "none"], late |-> {}]

\* stopLiveSync() of the polling mirror: if (syncTimer) clearInterval
stopLiveSync(ls) ==
  [ls EXCEPT !.syncTimer = FALSE, !.stopped = TRUE]

\* stopLiveSync() of the watching mirror: if (watcher) watcher.close()
stopWatching(w) ==
  [w EXCEPT !.watcher = FALSE, !.stopped = TRUE]

\* no queue file, no audit log, nothing written yet
InitIo ==
  /\ queueFile = <<>>
  /\ writes = <<>>
  /\ auditLog = <<>>
  /\ liveSync = InitLiveSync
  /\ watch = InitWatch

\* no exec submitted, no proxy request received, the server running
InitSys ==
  /\ execRequests = <<>>
  /\ proxies = <<>>
  /\ pc = "running"
  /\ syncMark = 0
  /\ shutdownDenied = {}
  /\ flows = <<>>
  /\ InitBrokers
  /\ InitIo
  /\ files = [f \in Files |-> "old"]

\* the queue after construction (and init() with no persisted file)
InitQueue ==
  /\ requests = <<>>
  /\ waiters = {}
  /\ counter = 0
  /\ promise = <<>>
  /\ log = <<>>
  /\ persistTimer = FALSE
  /\ timers = 0
  /\ lastCall = [op |-> "none", ok |-> TRUE, n |-> 0]

(***************************************************************************)
(* SpecQueue: the queue driven through its public methods, with            *)
(* subscribers that only observe the events (server.ts relays them).       *)
(***************************************************************************)
Statuses    == {"approved", "denied"}
ResolvedBys == {"web", "auto"}

\* (category, metadata.targetFile) of the requests submitted
RequestInputs ==
  { <<"network", NoMeta>>, <<"exec", NoMeta>>, <<"filesystem", NoMeta>>,
    <<"filesystem", ToolMeta("Write", FooFile, TRUE)>>,
    <<"filesystem", ToolMeta("Write", BarFile, TRUE)>> }

ReqCategories == { in[1] : in \in RequestInputs }

InitPolicy ==
  /\ rules = NoRules
  /\ categories = DefaultCategories
  /\ allowedEndpoints = DefaultEndpoints
  /\ evalArgs = [category |-> "network", target |-> <<>>]
  /\ verdict = "unset"
  /\ modeArgs = "network"
  /\ modeResult = "unset"
  /\ cfgCall = NoCall

InitQueueSpec == InitPolicy /\ InitQueue /\ InitSys

NextQueue ==
  \/ \E in \in RequestInputs : Request(in[1], in[2], NoReaction)
  \/ \E id \in AllIds, st \in Statuses, by \in ResolvedBys :
        Resolve(id, st, by, NoReaction)
  \/ \E id \in AllIds, by \in ResolvedBys : Approve(id, by)
  \/ \E id \in AllIds, by \in ResolvedBys : Deny(id, by)
  \/ \E c \in ReqCategories, st \in Statuses, by \in ResolvedBys :
        BulkResolve(c, st, by)

SpecQueue == InitQueueSpec /\ [][NextQueue]_vars

(***************************************************************************)
(* SpecReentrant: the same queue with a subscriber that calls back into    *)
(* the queue from inside the `request` or `resolve` event.                 *)
(***************************************************************************)
Reactions ==
  {NoReaction} \cup
  { [on |-> e, op |-> "resolve", id |-> id, status |-> st,
     category |-> "network", metadata |-> NoMeta] :
       e \in {"request", "resolve"}, id \in AllIds, st \in Statuses } \cup
  { [on |-> e, op |-> "request", id |-> 0, status |-> "denied",
     category |-> in[1], metadata |-> in[2]] :
       e \in {"request", "resolve"}, in \in RequestInputs }

NextReentrant ==
  \/ \E in \in RequestInputs, re \in Reactions : Request(in[1], in[2], re)
  \/ \E id \in AllIds, st \in Statuses, re \in Reactions :
        Resolve(id, st, "web", re)
  \/ \E c \in ReqCategories, st \in Statuses : BulkResolve(c, st, "web")

SpecReentrant == InitQueueSpec /\ [][NextReentrant]_vars

(***************************************************************************)
(* SpecPersist: the queue with its flush timer and the writes of           *)
(* data/queue.json.  While the process runs a timer that was set fires     *)
(* and a write that was started completes.                                 *)
(***************************************************************************)
PersistInputs == { <<"network", NoMeta>> }

NextPersist ==
  \/ \E in \in PersistInputs : Request(in[1], in[2], NoReaction)
  \/ \E id \in AllIds : Approve(id, "web")
  \/ \E id \in AllIds : Deny(id, "web")
  \/ \E st \in Statuses : BulkResolve("network", st, "web")
  \/ PersistTimerFires
  \/ \E k \in 1..(2 * MaxReq) : WriteCompletes(k)

SpecPersist ==
  /\ InitQueueSpec
  /\ [][NextPersist]_vars
  /\ WF_vars(PersistTimerFires)
  /\ WF_vars(\E k \in 1..(2 * MaxReq) : WriteCompletes(k))

(***************************************************************************)
(* queue.ts: init().  server.ts starts listening before it awaits          *)
(* queue.init(), so requests can be made while the queue file is read; the *)
(* loop over the loaded records runs without an await.  The ids of the     *)
(* file are the "req-N" that persist() wrote, held here as N (the value    *)
(* parseInt(req.id.split("-")[1]) gives for them).                         *)
(***************************************************************************)
\* number of records in the persisted queue file
MaxLoaded == 1

\* a record of the queue file
LoadedRecord(st) ==
  [category |-> "network", action |-> <<>>, targetFile |-> NoFile,
   toolName |-> "none", payload |-> FALSE, proposal |-> NoProposal,
   status |-> st,
   resolvedBy |-> IF st = "pending" THEN "none" ELSE "web",
   resolvedAt |-> IF st = "pending" THEN 0 ELSE 1]

\* the arrays persist() can have written: records req-0 .. req-(k-1)
PersistedQueues ==
  UNION { [0..(k - 1) -> { LoadedRecord(st) : st \in Statuses \cup {"pending"} }] :
            k \in 0..MaxLoaded }

\* the loop of init() restoring the counter only from a larger number
RECURSIVE initLoopStrict(_, _, _)
initLoopStrict(q, file, ids) ==
  IF ids = <<>> THEN q
  ELSE LET num == Head(ids)
           q1  == [q EXCEPT !.requests =
                     [i \in DOMAIN q.requests \cup {num} |->
                        IF i = num THEN file[num] ELSE q.requests[i]]]
           q2  == IF num > q1.counter THEN [q1 EXCEPT !.counter = num + 1] ELSE q1
       IN initLoopStrict(q2, file, Tail(ids))

\* for (const req of data) { this.requests.set(req.id, req); ... }
RECURSIVE initLoop(_, _, _)
initLoop(q, file, ids) ==
  IF ids = <<>> THEN q
  ELSE LET num == Head(ids)
           q1  == [q EXCEPT !.requests =
                     [i \in DOMAIN q.requests \cup {num} |->
                        IF i = num THEN file[num] ELSE q.requests[i]]]
           q2  == IF num >= q1.counter THEN [q1 EXCEPT !.counter = num + 1] ELSE q1
       IN initLoop(q2, file, Tail(ids))

\* await queue.init() returns: the server is initialised
QueueInit(file) ==
  /\ pc = "starting"
  /\ file \in PersistedQueues
  /\ SetQ(initLoop(QS, file, IdSeq(DOMAIN file)))
  /\ lastCall' = [op |-> "init", ok |-> TRUE, n |-> Cardinality(DOMAIN file)]
  /\ pc' = "running"
  /\ UNCHANGED <<policyVars, obsVars, execRequests, proxies, syncMark, shutdownDenied, flows, files, brokerVars, ioVars>>

\* the queue of a new process before init()
FreshQ == [requests |-> <<>>, waiters |-> {}, counter |-> 0, promise |-> <<>>,
           log |-> <<>>, persistTimer |-> FALSE, timers |-> 0]

\* the server is started again after process.exit: the memory of the old
\* process (timers set, writes not completed) is gone, init() loads what
\* data/queue.json holds, startLiveSync() is called
Restart ==
  /\ pc = "exited"
  /\ SetQ(initLoop(FreshQ, queueFile, IdSeq(DOMAIN queueFile)))
  /\ lastCall' = [op |-> "init", ok |-> TRUE, n |-> Cardinality(DOMAIN queueFile)]
  /\ pc' = "running"
  /\ syncMark' = 0
  /\ shutdownDenied' = {}
  /\ writes' = <<>>
  /\ liveSync' = InitLiveSync
  /\ watch' = InitWatch
  /\ UNCHANGED <<policyVars, obsVars, execRequests, proxies, flows, files,
                 brokerVars, queueFile, auditLog>>

(***************************************************************************)
(* SpecStartup: the queue from the start of the process: requests and      *)
(* decisions arrive before and after init() has loaded the queue file.     *)
(***************************************************************************)
InitStartup ==
  /\ InitPolicy
  /\ InitQueue
  /\ execRequests = <<>>
  /\ proxies = <<>>
  /\ pc = "starting"
  /\ syncMark = 0
  /\ shutdownDenied = {}
  /\ flows = <<>>
  /\ InitBrokers
  /\ InitIo
  /\ files = [f \in Files |-> "old"]

NextStartup ==
  \/ \E file \in PersistedQueues : QueueInit(file)
  \/ \E in \in RequestInputs : Request(in[1], in[2], NoReaction)
  \/ \E id \in AllIds : Approve(id, "web")
  \/ \E id \in AllIds : Deny(id, "web")
  \/ \E c \in ReqCategories, st \in Statuses : BulkResolve(c, st, "web")

SpecStartup == InitStartup /\ [][NextStartup]_vars

(***************************************************************************)
(* C1: resolve/approve/deny called on an id that is not pending (already   *)
(* resolved, or unknown) returns false and changes nothing: no field of    *)
(* any request, no waiter, no promise, and nothing is emitted.  A resolved *)
(* request keeps its status, resolvedBy and resolvedAt for ever.           *)
(***************************************************************************)
NotPending(id) ==
  id \notin DOMAIN requests \/ requests[id].status # "pending"

C1_Step ==
  /\ \A op \in {"resolve", "approve", "deny"}, id \in AllIds,
        st \in Statuses, by \in ResolvedBys :
        (NotPending(id) /\ lastCall'.op = op /\ ResolveCall(op, id, st, by, NoReaction))
          => /\ lastCall'.ok = FALSE
             /\ UNCHANGED <<requests, waiters, promise, log, counter>>
  /\ \A id \in DOMAIN requests :
        requests[id].status # "pending"
          => (id \in DOMAIN requests' /\ requests'[id] = requests[id])

C1_ResolveNonPendingNoEffect == [][C1_Step]_vars

\* a second approve/deny/resolve of an already resolved request was refused
C1_Witness ==
  /\ lastCall.op \in {"resolve", "approve", "deny"}
  /\ lastCall.ok = FALSE
  /\ \E id \in DOMAIN requests : requests[id].status \in Statuses

(***************************************************************************)
(* C2: for every targetFile at most one filesystem request carrying that   *)
(* metadata.targetFile is pending.                                         *)
(***************************************************************************)
C2_AtMostOnePendingPerFile ==
  \A a \in DOMAIN requests, b \in DOMAIN requests :
     ( /\ a # b
       /\ requests[a].category = "filesystem"
       /\ requests[b].category = "filesystem"
       /\ requests[a].targetFile # NoFile
       /\ requests[a].targetFile = requests[b].targetFile
       /\ requests[a].status = "pending" )
     => requests[b].status # "pending"

(***************************************************************************)
(* C4: a waiter is registered for an id exactly when the request created   *)
(* by request() with that id is pending, also when subscribers call the    *)
(* queue synchronously from inside the `request` or `resolve` event.       *)
(***************************************************************************)
C4_WaiterIffPending ==
  /\ \A id \in waiters : id \in DOMAIN requests /\ requests[id].status = "pending"
  /\ \A id \in DOMAIN requests : requests[id].status = "pending" => id \in waiters

(***************************************************************************)
(* C10: for every request id the `request` event is emitted before any    *)
(* `resolve` event for it, exactly one `resolve` event is emitted per      *)
(* request that has left pending (none while it is pending), and the       *)
(* waiter of the request completes after both events, at most once.        *)
(***************************************************************************)
Positions(type, id) ==
  { i \in 1..Len(log) : log[i].type = type /\ log[i].id = id }

C10_EventOrder ==
  \A id \in AllIds :
    /\ \A r \in Positions("resolve", id) :
          \E q \in Positions("request", id) : q < r
    /\ Cardinality(Positions("resolve", id)) =
          IF id \in DOMAIN requests /\ requests[id].status # "pending"
          THEN 1 ELSE 0
    /\ \A w \in Positions("waiter", id) :
          /\ \E q \in Positions("request", id) : q < w
          /\ \E r \in Positions("resolve", id) : r < w
    /\ Cardinality(Positions("waiter", id)) <= 1
    /\ (id \in DOMAIN promise /\ promise[id] # "pending")
          => Positions("waiter", id) # {}

\* a request that went through request event, resolve event and completion
C10_Witness ==
  \E id \in DOMAIN requests :
     /\ Positions("request", id) # {}
     /\ Positions("resolve", id) # {}
     /\ Positions("waiter", id) # {}
     /\ promise[id] = "true"

(***************************************************************************)
(* C11: the promise returned by request() is settled at most once and only *)
(* after its request has left pending; it yields true exactly when the     *)
(* request is approved and false exactly when it is denied, whether the    *)
(* request was resolved by resolve, approve, deny or bulkResolve and       *)
(* whoever resolved it (an operator or "auto").                            *)
(***************************************************************************)
C11_PromiseFollowsStatus ==
  \A id \in DOMAIN promise :
    /\ id \in DOMAIN requests
    /\ promise[id] \in {"pending", "true", "false"}
    /\ promise[id] = "pending" <=> requests[id].status = "pending"
    /\ promise[id] = "true" <=> requests[id].status = "approved"
    /\ promise[id] = "false" <=> requests[id].status = "denied"
    /\ Cardinality(Positions("waiter", id)) =
          IF promise[id] = "pending" THEN 0 ELSE 1

\* one request denied by a bulkResolve made by "auto" with its promise false,
\* another approved with its promise true
C11_Witness ==
  /\ \E id \in DOMAIN promise :
        /\ promise[id] = "false"
        /\ requests[id].resolvedBy = "auto"
        /\ lastCall.op = "bulkResolve"
  /\ \E id \in DOMAIN promise : promise[id] = "true"

(***************************************************************************)
(* C12: when request() is called for a filesystem request whose            *)
(* metadata.targetFile equals that of a pending filesystem request, the    *)
(* older request is denied with resolvedBy auto by that call, its promise  *)
(* yields false, and the new request is pending.                           *)
(***************************************************************************)
SameFile(q, a, category, targetFile) ==
  /\ category = "filesystem"
  /\ targetFile # NoFile
  /\ q[a].category = "filesystem"
  /\ q[a].targetFile = targetFile

C12_Step ==
  \A in \in RequestInputs :
    (lastCall'.op = "request" /\ Request(in[1], in[2], NoReaction)) =>
       /\ requests'[lastCall'.n].status = "pending"
       /\ \A a \in DOMAIN requests :
             (requests[a].status = "pending" /\ SameFile(requests, a, in[1], in[2].targetFile))
               => /\ requests'[a].status = "denied"
                  /\ requests'[a].resolvedBy = "auto"
                  /\ promise'[a] = "false"

C12_SupersededIsDenied == [][C12_Step]_vars

(***************************************************************************)
(* C13: the `resolve` event of a superseded filesystem request is emitted  *)
(* before the `request` event of the request that supersedes it: whenever  *)
(* a `request` event for a filesystem targetFile is in the event sequence, *)
(* every earlier request for the same targetFile has its `resolve` event   *)
(* before it.                                                              *)
(***************************************************************************)
C13_ResolveBeforeSuperseder ==
  \A a \in DOMAIN requests, b \in DOMAIN requests :
    ( /\ a < b
      /\ SameFile(requests, a, requests[b].category, requests[b].targetFile) )
    => \A pb \in Positions("request", b) :
          \E pa \in Positions("resolve", a) : pa < pb

(***************************************************************************)
(* C14: request() changes no other request unless that request is a        *)
(* pending filesystem request with the same metadata.targetFile: pending   *)
(* requests of other categories, and filesystem requests with another or   *)
(* no targetFile, stay as they are, and so do their waiters and promises.  *)
(***************************************************************************)
C14_Step ==
  \A in \in RequestInputs :
    (lastCall'.op = "request" /\ Request(in[1], in[2], NoReaction)) =>
       \A a \in DOMAIN requests :
          ~(requests[a].status = "pending" /\ SameFile(requests, a, in[1], in[2].targetFile))
            => /\ requests'[a] = requests[a]
               /\ promise'[a] = promise[a]
               /\ (a \in waiters' <=> a \in waiters)

C14_RequestFrame == [][C14_Step]_vars

\* two pending requests of different categories or for different files: the
\* later call left the earlier one alone
C14_Witness ==
  /\ lastCall.op = "request"
  /\ lastCall.n = 1
  /\ requests[0].status = "pending"
  /\ requests[1].status = "pending"
  /\ \/ requests[0].category # requests[1].category
     \/ requests[0].targetFile # requests[1].targetFile

(***************************************************************************)
(* C15: right after bulkResolve(c, s) has returned n, no request of        *)
(* category c is pending, n is the number of requests of category c that   *)
(* were pending at the call, and each of them has status s, the resolvedBy *)
(* given, and its waiter signalled (true iff s is approved) and removed.   *)
(***************************************************************************)
PendingOf(c) ==
  { id \in DOMAIN requests :
      requests[id].category = c /\ requests[id].status = "pending" }

C15_Step ==
  \A c \in ReqCategories, st \in Statuses, by \in ResolvedBys :
    (lastCall'.op = "bulkResolve" /\ BulkResolve(c, st, by)) =>
       /\ \A id \in DOMAIN requests' :
             requests'[id].category = c => requests'[id].status # "pending"
       /\ lastCall'.n = Cardinality(PendingOf(c))
       /\ \A id \in PendingOf(c) :
             /\ requests'[id].status = st
             /\ requests'[id].resolvedBy = by
             /\ promise'[id] = (IF st = "approved" THEN "true" ELSE "false")
             /\ id \notin waiters'

C15_BulkResolvesCategory == [][C15_Step]_vars

\* a bulkResolve that resolved two requests at once
C15_Witness ==
  /\ lastCall.op = "bulkResolve"
  /\ lastCall.n = 2
  /\ \A id \in {0, 1} : id \in DOMAIN requests /\ requests[id].status = "approved"

(***************************************************************************)
(* C16: bulkResolve(c, s) leaves every request of another category and     *)
(* every request of category c that was already approved or denied as it   *)
(* was: status, resolvedBy, resolvedAt, waiter and promise are untouched.  *)
(***************************************************************************)
C16_Step ==
  \A c \in ReqCategories, st \in Statuses, by \in ResolvedBys :
    (lastCall'.op = "bulkResolve" /\ BulkResolve(c, st, by)) =>
       /\ DOMAIN requests' = DOMAIN requests
       /\ \A id \in DOMAIN requests \ PendingOf(c) :
             /\ requests'[id] = requests[id]
             /\ promise'[id] = promise[id]
             /\ (id \in waiters' <=> id \in waiters)

C16_BulkFrame == [][C16_Step]_vars

\* a bulkResolve that resolved one request and left a pending request of
\* another category pending
C16_Witness ==
  /\ lastCall.op = "bulkResolve"
  /\ lastCall.n = 1
  /\ \E a \in DOMAIN requests, b \in DOMAIN requests :
        /\ requests[a].status = "denied"
        /\ requests[b].status = "pending"
        /\ requests[a].category # requests[b].category

(***************************************************************************)
(* C17: every id returned by request() is the counter's value req-N, with  *)
(* N larger than the N of every id returned before and distinct from every *)
(* id stored in the queue, the ids loaded by init() included: after init() *)
(* (and always) the counter is larger than the N of every stored record.   *)
(***************************************************************************)
RequestEvents(l) == { i \in 1..Len(l) : l[i].type = "request" }

C17_Step ==
  /\ \A id \in DOMAIN requests' : id < counter'
  /\ counter' >= counter
  /\ (Len(log') = Len(log) + 1 /\ log'[Len(log')].type = "request") =>
       LET n == log'[Len(log')].id IN
       /\ lastCall'.op = "request" /\ lastCall'.n = n
       /\ n = counter
       /\ counter' = n + 1
       /\ n \notin DOMAIN requests
       /\ n \in DOMAIN requests'
       /\ \A i \in RequestEvents(log) : log[i].id < n

C17_IdsIncreaseAndAreFresh == [][C17_Step]_vars

\* init() loaded req-0 and the next request() returned req-1
C17_Witness ==
  /\ pc = "running"
  /\ 0 \in DOMAIN requests
  /\ Positions("request", 0) = {}
  /\ Positions("request", 1) # {}
  /\ lastCall.op = "request"
  /\ lastCall.n = 1

(***************************************************************************)
(* config.ts: addRule                                                      *)
(***************************************************************************)
\* addRule without the parseRule test
addRuleOpNoParse(rs, type, rule) ==
  LET list == rs[type] IN
  IF \E i \in 1..Len(list) : list[i] = rule THEN [rules |-> rs, ret |-> FALSE]
  ELSE [rules |-> [rs EXCEPT ![type] = Append(list, rule)], ret |-> TRUE]

\* addRule(type, rule) on a rule set -> [rules, ret]
addRuleOp(rs, type, rule) ==
  LET list == rs[type] IN
  IF \E i \in 1..Len(list) : list[i] = rule THEN [rules |-> rs, ret |-> FALSE]
  ELSE IF ~parseRule(rule).ok THEN [rules |-> rs, ret |-> FALSE]
  ELSE [rules |-> [rs EXCEPT ![type] = Append(list, rule)], ret |-> TRUE]

\* POST /api/rules: addRule(type, rule) (then saveConfig and the broadcast)
AddRule(type, rule) ==
  /\ Len(rules.allow) + Len(rules.deny) < MaxRules
  /\ LET r == addRuleOp(rules, type, rule) IN
       /\ rules' = r.rules
       /\ cfgCall' = [op |-> "addRule", ret |-> r.ret]
  /\ UNCHANGED <<categories, allowedEndpoints, evalArgs, verdict, modeArgs,
                 modeResult, queueVars, sysVars>>

(***************************************************************************)
(* exec.ts                                                                 *)
(***************************************************************************)
\* number of commands submitted
MaxExec == 2

\* the continuation registered on the waiter that runs the command whatever
\* the decision was
execAfterDecisionAlwaysRun(approved) == "running"

\* the continuation that marks the record approved before it runs
execAfterDecisionViaApproved(approved) ==
  IF ~approved THEN "denied" ELSE "approved"

\* promise.then(async (approved) => ...): the status the continuation sets
\* first; "running" means runCommand is called
execAfterDecision(approved) ==
  IF ~approved THEN "denied" ELSE "running"

\* how a run of runCommand ends: the child exits by itself, the timer fires
\* and kills it, or Bun.spawn throws
RunOutcomes == {"exit", "timeout", "throw"}

\* result of an ExecRequest: `timedOut` says that the run exceeded the
\* timeout, `stderrEnd` is what stderr ends with
NoResult == [set |-> FALSE, exitCode |-> 0, stderrEnd |-> "", timedOut |-> FALSE]

\* runCommand(command, cwd, timeout) -> [threw, result]
runCommand(outcome) ==
  CASE outcome = "throw" ->
         [threw |-> TRUE, result |-> NoResult]
    [] outcome = "timeout" ->
         [threw |-> FALSE,
          result |-> [set |-> TRUE, exitCode |-> 124,
                      stderrEnd |-> "\n[timed out]", timedOut |-> TRUE]]
    [] outcome = "exit" ->
         [threw |-> FALSE,
          result |-> [set |-> TRUE, exitCode |-> 0, stderrEnd |-> "",
                      timedOut |-> FALSE]]

\* try { result = await runCommand(..); status = "completed" }
\* catch (err) { result = {.., exitCode: -1}; status = "failed" }
\* -> [status, result]
afterRun(r) ==
  IF r.threw
  THEN [status |-> "failed",
        result |-> [set |-> TRUE, exitCode |-> 0 - 1, stderrEnd |-> "message",
                    timedOut |-> FALSE]]
  ELSE [status |-> "completed", result |-> r.result]

\* submitExec(command, cwd, reason, timeout)
SubmitExec(command) ==
  /\ pc # "exited"
  /\ Len(execRequests) < MaxExec
  /\ LET v == evaluateRules(getRules, "exec", command) IN
     CASE v = "deny" ->
            /\ execRequests' = Append(execRequests,
                 [idKind |-> "exec-denied", qid |-> 0 - 1, command |-> command,
                  verdict |-> v, status |-> "denied", spawned |-> FALSE,
                  continued |-> FALSE, result |-> NoResult])
            /\ UNCHANGED <<requests, waiters, counter, promise, log, persistVars>>
       [] v = "allow" ->
            /\ execRequests' = Append(execRequests,
                 [idKind |-> "exec-auto", qid |-> 0 - 1, command |-> command,
                  verdict |-> v, status |-> "running", spawned |-> TRUE,
                  continued |-> FALSE, result |-> NoResult])
            /\ UNCHANGED <<requests, waiters, counter, promise, log, persistVars>>
       [] v = "null" ->
            /\ counter < MaxReq
            /\ LET r == requestOp(QS, "exec", command, NoMeta, NoReaction) IN
                 /\ SetQ(r.q)
                 /\ execRequests' = Append(execRequests,
                      [idKind |-> "req", qid |-> r.id, command |-> command,
                       verdict |-> v, status |-> "pending", spawned |-> FALSE,
                       continued |-> FALSE, result |-> NoResult])
  /\ UNCHANGED <<policyVars, obsVars, lastCall, proxies, pc, syncMark, shutdownDenied, flows, files, brokerVars, ioVars>>

\* the continuation of submitExec runs once the promise is settled
ExecContinue(i) ==
  /\ pc # "exited"
  /\ i \in 1..Len(execRequests)
  /\ execRequests[i].idKind = "req"
  /\ ~execRequests[i].continued
  /\ promise[execRequests[i].qid] # "pending"
  /\ LET st == execAfterDecision(promise[execRequests[i].qid] = "true") IN
       execRequests' = [execRequests EXCEPT ![i].continued = TRUE,
                                            ![i].status = st,
                                            ![i].spawned = (st = "running")]
  /\ UNCHANGED <<policyVars, obsVars, queueVars, proxies, pc, syncMark, shutdownDenied, flows, files, brokerVars, ioVars>>

\* runCommand returns or throws
ExecFinish(i, outcome) ==
  /\ pc # "exited"
  /\ i \in 1..Len(execRequests)
  /\ outcome \in RunOutcomes
  /\ execRequests[i].status = "running"
  /\ LET a == afterRun(runCommand(outcome)) IN
       execRequests' = [execRequests EXCEPT ![i].status = a.status,
                                            ![i].result = a.result]
  /\ UNCHANGED <<policyVars, obsVars, queueVars, proxies, pc, syncMark, shutdownDenied, flows, files, brokerVars, ioVars>>

(***************************************************************************)
(* packages.ts: submitPackageRequest, the same pipeline as submitExec for  *)
(* the category packages; matchTarget is `${manager} ${action} ${pkgs}`.    *)
(***************************************************************************)
\* number of package requests submitted
MaxPkg == 2

\* the words of the package commands
wBun == <<"b","u","n">>
wNpm == <<"n","p","m">>
wPip == <<"p","i","p">>
wPip3 == <<"p","i","p","3">>
wCargo == <<"c","a","r","g","o">>
wAdd == <<"a","d","d">>
wRemove == <<"r","e","m","o","v","e">>
wInstall == <<"i","n","s","t","a","l","l">>
wI == <<"i">>
wUninstall == <<"u","n","i","n","s","t","a","l","l">>
wX == <<"x">>
wExpress == <<"e","x","p","r","e","s","s">>
wDashD == <<"-","D">>
wRegistry == <<"-","-","r","e","g","i","s","t","r","y","=","e","v","i","l",".","c","o","m">>

\* SAFE_FLAGS
SAFE_FLAGS ==
  {<<"-","D">>,
   <<"-","-","d","e","v">>,
   <<"-","-","s","a","v","e","-","d","e","v">>,
   <<"-","E">>,
   <<"-","-","e","x","a","c","t">>,
   <<"-","g">>,
   <<"-","-","g","l","o","b","a","l">>,
   <<"-","-","s","a","v","e">>,
   <<"-","-","s","a","v","e","-","e","x","a","c","t">>}

\* Array.prototype.join(" ")
RECURSIVE join(_)
join(parts) ==
  IF parts = <<>> THEN <<>>
  ELSE IF Len(parts) = 1 THEN parts[1]
  ELSE parts[1] \o <<" ">> \o join(Tail(parts))

\* the maximal runs of non-blank characters of s, cur being the run so far
RECURSIVE tokens(_, _)
tokens(s, cur) ==
  IF s = <<>> THEN (IF cur = <<>> THEN <<>> ELSE <<cur>>)
  ELSE IF Head(s) = " "
       THEN (IF cur = <<>> THEN <<>> ELSE <<cur>>) \o tokens(Tail(s), <<>>)
       ELSE tokens(Tail(s), Append(cur, Head(s)))

\* command.trim().split(/\s+/): the blank command gives one empty part
trimSplit(command) ==
  LET t == tokens(command, <<>>) IN IF t = <<>> THEN << <<>> >> ELSE t

\* arg.startsWith("-")
isFlag(arg) == arg # <<>> /\ Head(arg) = "-"

\* splitArgs(args) -> [packages, flags]
RECURSIVE splitArgs(_)
splitArgs(args) ==
  IF args = <<>> THEN [packages |-> <<>>, flags |-> <<>>]
  ELSE LET arg  == Head(args)
           rest == splitArgs(Tail(args))
       IN IF isFlag(arg)
          THEN (IF arg \in SAFE_FLAGS
                THEN [rest EXCEPT !.flags = <<arg>> \o @]
                ELSE rest)
          ELSE [rest EXCEPT !.packages = <<arg>> \o @]

NoCommand == [ok |-> FALSE, manager |-> <<>>, action |-> <<>>,
              packages |-> <<>>, flags |-> <<>>]

\* parsePackageCommand(command): NoCommand stands for null
parsePackageCommand(command) ==
  LET parts == trimSplit(command) IN
  IF Len(parts) < 2 THEN NoCommand
  ELSE LET bin  == parts[1]
           sub  == parts[2]
           sp   == splitArgs(SubSeq(parts, 3, Len(parts)))
           res(manager, action) ==
             IF sp.packages = <<>> THEN NoCommand
             ELSE [ok |-> TRUE, manager |-> manager, action |-> action,
                   packages |-> sp.packages, flags |-> sp.flags]
       IN CASE bin = wBun /\ sub \in {wAdd, wRemove} ->
                 res(wBun, IF sub = wRemove THEN wRemove ELSE wAdd)
            [] bin = wNpm /\ sub \in {wInstall, wI, wUninstall} ->
                 res(wNpm, IF sub = wUninstall THEN wRemove ELSE wInstall)
            [] bin \in {wPip, wPip3} /\ sub \in {wInstall, wUninstall} ->
                 res(wPip, IF sub = wUninstall THEN wRemove ELSE wInstall)
            [] bin = wCargo /\ sub \in {wAdd, wRemove} ->
                 res(wCargo, IF sub = wRemove THEN wRemove ELSE wAdd)
            [] OTHER -> NoCommand

\* buildCommand(manager, action, packages, flags)
buildCommand(manager, action, packages, flags) ==
  LET verb == CASE manager = wBun -> IF action = wRemove THEN wRemove ELSE wAdd
                [] manager = wNpm -> IF action = wRemove THEN wUninstall ELSE wInstall
                [] manager \in {wPip, wPip3} ->
                     IF action = wRemove THEN wUninstall ELSE wInstall
                [] manager = wCargo -> IF action = wRemove THEN wRemove ELSE wAdd
                [] OTHER -> action
  IN join(<<manager, verb>> \o flags \o packages)

\* `${manager} ${action} ${packages.join(" ")}`
matchTargetOf(manager, action, packages) ==
  join(<<manager, action, join(packages)>>)

\* the bodies of POST /api/packages: [manager, action, packages]
PkgInput(manager, action, packages) ==
  [manager |-> manager, action |-> action, packages |-> packages]

tBunAdd == matchTargetOf(wBun, wAdd, <<wX>>)
tPipAdd == matchTargetOf(wPip, wAdd, <<wX>>)
PkgInputs == {PkgInput(wBun, wAdd, <<wX>>), PkgInput(wPip, wAdd, <<wX>>)}

rPkgBunAdd == CatChars("packages") \o <<"(">> \o tBunAdd \o <<")">>

\* promise.then(async (approved) => ...) of submitPackageRequest
pkgAfterDecision(approved) ==
  IF ~approved THEN "denied" ELSE "running"

\* submitPackageRequest(manager, packages, action, reason, cwd, timeout)
SubmitPackage(manager, packages, action) ==
  /\ pc # "exited"
  /\ Len(pkgRequests) < MaxPkg
  /\ LET matchTarget == matchTargetOf(manager, action, packages)
         command     == buildCommand(manager, action, packages, <<>>)
         v           == evaluateRules(getRules, "packages", matchTarget) IN
     CASE v = "deny" ->
            /\ pkgRequests' = Append(pkgRequests,
                 [idKind |-> "pkg-denied", qid |-> 0 - 1, target |-> matchTarget,
                  command |-> command,
                  verdict |-> v, status |-> "denied", continued |-> FALSE,
                  result |-> NoResult])
            /\ UNCHANGED <<requests, waiters, counter, promise, log, persistVars>>
       [] v = "allow" ->
            /\ pkgRequests' = Append(pkgRequests,
                 [idKind |-> "pkg-auto", qid |-> 0 - 1, target |-> matchTarget,
                  command |-> command,
                  verdict |-> v, status |-> "running", continued |-> FALSE,
                  result |-> NoResult])
            /\ UNCHANGED <<requests, waiters, counter, promise, log, persistVars>>
       [] v = "null" ->
            /\ counter < MaxReq
            /\ LET r == requestOp(QS, "packages", matchTarget, NoMeta, NoReaction) IN
                 /\ SetQ(r.q)
                 /\ pkgRequests' = Append(pkgRequests,
                      [idKind |-> "req", qid |-> r.id, target |-> matchTarget,
                  command |-> command,
                       verdict |-> v, status |-> "pending", continued |-> FALSE,
                       result |-> NoResult])
  /\ UNCHANGED <<policyVars, obsVars, lastCall, execRequests, proxies, pc,
                 syncMark, shutdownDenied, flows, files, syncs, hostFiles, gitSyncs, ioVars>>

\* the continuation of submitPackageRequest runs once the promise is settled
PkgContinue(i) ==
  /\ pc # "exited"
  /\ i \in 1..Len(pkgRequests)
  /\ pkgRequests[i].idKind = "req"
  /\ ~pkgRequests[i].continued
  /\ promise[pkgRequests[i].qid] # "pending"
  /\ pkgRequests' = [pkgRequests EXCEPT
                       ![i].continued = TRUE,
                       ![i].status = pkgAfterDecision(promise[pkgRequests[i].qid] = "true")]
  /\ UNCHANGED <<policyVars, obsVars, queueVars, execRequests, proxies, pc,
                 syncMark, shutdownDenied, flows, files, syncs, hostFiles, gitSyncs, ioVars>>

\* runPackageCommand returns or throws
PkgFinish(i, outcome) ==
  /\ pc # "exited"
  /\ i \in 1..Len(pkgRequests)
  /\ outcome \in RunOutcomes
  /\ pkgRequests[i].status = "running"
  /\ LET a == afterRun(runCommand(outcome)) IN
       pkgRequests' = [pkgRequests EXCEPT ![i].status = a.status,
                                          ![i].result = a.result]
  /\ UNCHANGED <<policyVars, obsVars, queueVars, execRequests, proxies, pc,
                 syncMark, shutdownDenied, flows, files, syncs, hostFiles, gitSyncs, ioVars>>

(***************************************************************************)
(* proxy.ts                                                                *)
(***************************************************************************)
\* number of proxy requests received
MaxProxy == 2

hOther == <<"e", ".", "x">>
hSub   == <<"b", ".", "a", ".", "c">>
Hosts  == {hSub, hOther}

\* the decision that lets every host through without asking
proxyDecisionOpen(host) ==
  IF isEndpointAllowed(host) THEN "proceed"
  ELSE LET mode == getCategoryMode("network") IN
       IF mode = "deny-all" THEN "403-policy" ELSE "proceed"

\* the decision that lets a request through under approve-bulk
proxyDecisionBulkOpen(host) ==
  IF isEndpointAllowed(host) THEN "proceed"
  ELSE LET mode == getCategoryMode("network") IN
       IF mode = "allow-all" \/ mode = "approve-bulk" THEN "proceed"
       ELSE IF mode = "deny-all" THEN "403-policy"
       ELSE "queue"

\* handleConnect / handleHttp up to the queue: "proceed" (200 or fetch),
\* "403-policy", or "queue"
proxyDecision(host) ==
  IF isEndpointAllowed(host) THEN "proceed"
  ELSE LET mode == getCategoryMode("network") IN
       IF mode = "allow-all" THEN "proceed"
       ELSE IF mode = "deny-all" THEN "403-policy"
       ELSE "queue"

\* the response once the awaited promise yields `approved`
proxyAfterDecision(approved) ==
  IF approved THEN "proceed" ELSE "403-denied"

\* handleConnect(req) / handleHttp(req) until the first await
ProxyStart(kind, host) ==
  /\ pc # "exited"
  /\ kind \in {"CONNECT", "HTTP"}
  /\ Len(proxies) < MaxProxy
  /\ LET dec == proxyDecision(host)
         rec == [kind |-> kind, host |-> host,
                 allowed |-> isEndpointAllowed(host),
                 mode |-> getCategoryMode("network"),
                 verdict |-> evaluateRules(getRules, "network", host),
                 qid |-> 0 - 1, response |-> "none", cited |-> 0 - 1]
     IN IF dec = "queue"
        THEN /\ counter < MaxReq
             /\ LET r == requestOp(QS, "network", host, NoMeta, NoReaction) IN
                  /\ SetQ(r.q)
                  /\ proxies' = Append(proxies, [rec EXCEPT !.qid = r.id])
        ELSE /\ proxies' = Append(proxies, [rec EXCEPT !.response = dec])
             /\ UNCHANGED <<requests, waiters, counter, promise, log, persistVars>>
  /\ UNCHANGED <<policyVars, obsVars, lastCall, execRequests, pc, syncMark, shutdownDenied, flows, files, brokerVars, ioVars>>

\* the handler resumes after `await promise`
ProxyResume(i) ==
  /\ pc # "exited"
  /\ i \in 1..Len(proxies)
  /\ proxies[i].response = "none"
  /\ promise[proxies[i].qid] # "pending"
  /\ LET resp == proxyAfterDecision(promise[proxies[i].qid] = "true") IN
       proxies' = [proxies EXCEPT
                     ![i].response = resp,
                     ![i].cited = IF resp = "403-denied" THEN proxies[i].qid ELSE @]
  /\ UNCHANGED <<policyVars, obsVars, queueVars, execRequests, pc, syncMark, shutdownDenied, flows, files, brokerVars, ioVars>>

(***************************************************************************)
(* server.ts: gracefulShutdown                                             *)
(***************************************************************************)
\* the requests the shutdown denies if it took its snapshot before fullSync
shutdownTargetsEarly(q) == { id \in pending(q) : id < syncMark }

\* for (const req of queue.pending()), read after fullSync has returned
shutdownTargets(q) == pending(q)

\* queue.deny(req.id, "auto") for each request of the snapshot
RECURSIVE denyAll(_, _)
denyAll(q, ids) ==
  IF ids = <<>> THEN q
  ELSE denyAll(resolveOp(q, Head(ids), "denied", "auto", NoReaction).q, Tail(ids))

\* a step of the server that the event sequence records besides the queue's
\* events: stopLiveSync, the end of fullSync, broadcast("shutdown"), exit
record(q, type) ==
  [q EXCEPT !.log = Append(@, [type |-> type, id |-> 0 - 1])]

\* number of triggers of gracefulShutdown (signals, the uptime timer)
MaxShutdowns == 2

Triggers == Cardinality({ i \in 1..Len(log) : log[i].type = "stopLiveSync" })

\* a signal or the uptime timer: stopLiveSync(), then fullSync() is awaited;
\* a further trigger while a fullSync is awaited starts the sequence again
ShutdownStart ==
  /\ pc \in {"running", "syncing"}
  /\ Triggers < MaxShutdowns
  /\ pc' = "syncing"
  /\ syncMark' = IF pc = "running" THEN counter ELSE syncMark
  /\ log' = Append(log, [type |-> "stopLiveSync", id |-> 0 - 1])
  /\ liveSync' = [stopLiveSync(liveSync) EXCEPT !.fullSyncs = @ + 1]
  /\ watch' = stopWatching(watch)
  /\ UNCHANGED <<policyVars, obsVars, requests, waiters, counter, promise,
                 persistVars, lastCall, execRequests, proxies, shutdownDenied,
                 flows, files, brokerVars, queueFile, writes, auditLog>>

\* the sequence with the broadcast made before the pending requests are denied
afterFullSyncBroadcastFirst(q, targets) ==
  record(denyAll(record(record(q, "fullSync"), "shutdown"), IdSeq(targets)), "exit")

\* gracefulShutdown after `await fullSync()`: the deny loop, the broadcast of
\* `shutdown`, process.exit(0)
afterFullSync(q, targets) ==
  record(record(denyAll(record(q, "fullSync"), IdSeq(targets)), "shutdown"), "exit")

\* a fullSync has returned: the gracefulShutdown awaiting it runs to the exit
ShutdownFinish ==
  /\ pc = "syncing"
  /\ LET targets == shutdownTargets(QS) IN
       /\ SetQ(afterFullSync(QS, targets))
       /\ shutdownDenied' = targets
  /\ pc' = "exited"
  /\ UNCHANGED <<policyVars, obsVars, lastCall, execRequests, proxies, syncMark, flows, files, brokerVars, ioVars>>

(***************************************************************************)
(* rules.ts: extractNetworkHost, generateRule; server.ts: getMatchTarget,   *)
(* autoResolveMatching.  Action strings are character sequences.           *)
(***************************************************************************)
\* \s, \d and \w of the regular expressions, over the characters in use
Whitespace == {" ", "\t", "\n", "\r", "\f"}
Digits == {"0", "1", "2", "3", "4", "5", "6", "7", "8", "9"}
Letters ==
  {"a","b","c","d","e","f","g","h","i","j","k","l","m","n","o","p","q","r",
   "s","t","u","v","w","x","y","z",
   "A","B","C","D","E","F","G","H","I","J","K","L","M","N","O","P","Q","R",
   "S","T","U","V","W","X","Y","Z"}
WordChars == Letters \cup Digits \cup {"_"}

StartsWith(s, prefix) ==
  Len(prefix) <= Len(s) /\ SubSeq(s, 1, Len(prefix)) = prefix

Drop(s, n) == SubSeq(s, n + 1, Len(s))

\* length of the longest prefix of s made of characters of (not of) the set
RECURSIVE RunIn(_, _)
RunIn(s, set) ==
  IF s = <<>> \/ Head(s) \notin set THEN 0 ELSE 1 + RunIn(Tail(s), set)

RECURSIVE RunNotIn(_, _)
RunNotIn(s, set) ==
  IF s = <<>> \/ Head(s) \in set THEN 0 ELSE 1 + RunNotIn(Tail(s), set)

\* String.prototype.lastIndexOf for one character; 0 when absent (JS: -1)
LastIndexOf(s, ch) ==
  IF \E i \in 1..Len(s) : s[i] = ch
  THEN CHOOSE i \in 1..Len(s) : s[i] = ch /\ \A j \in (i + 1)..Len(s) : s[j] # ch
  ELSE 0

\* String.prototype.split for a one-character separator
RECURSIVE Split(_, _)
Split(s, ch) ==
  LET i == IndexOf(s, ch) IN
  IF i = 0 THEN <<s>>
  ELSE <<SubSeq(s, 1, i - 1)>> \o Split(Drop(s, i), ch)

NoHost == [ok |-> FALSE, host |-> <<>>]
Host(h) == [ok |-> TRUE, host |-> h]

sCONNECT == <<"C","O","N","N","E","C","T">>
sHttp    == <<"h","t","t","p">>
sSync    == <<"s","y","n","c">>

\* action.match(/^CONNECT\s+([^:]+)/): group 1
connectMatch(action) ==
  IF ~StartsWith(action, sCONNECT) THEN NoHost
  ELSE LET rest  == Drop(action, Len(sCONNECT))
           w     == RunIn(rest, Whitespace)
           after == Drop(rest, w)
       IN IF w = 0 THEN NoHost
          ELSE IF after # <<>> /\ Head(after) # ":"
               THEN Host(SubSeq(after, 1, RunNotIn(after, {":"})))
               ELSE IF w >= 2 THEN Host(<<rest[w]>>)
               ELSE NoHost

\* the scheme and slashes matched at position i by /\bhttps?:\/\//, as the
\* number of characters matched (0: no match at i)
UrlPrefixAt(action, i) ==
  LET t == Drop(action, i - 1) IN
  IF i > 1 /\ action[i - 1] \in WordChars THEN 0
  ELSE IF StartsWith(t, sHttp \o <<"s", ":", "/", "/">>) THEN 8
  ELSE IF StartsWith(t, sHttp \o <<":", "/", "/">>) THEN 7
  ELSE 0

\* action.match(/\bhttps?:\/\/([^/:\s]+)/): group 1 of the leftmost match
urlMatch(action) ==
  LET hostAt(i) == LET t == Drop(action, i - 1 + UrlPrefixAt(action, i))
                   IN SubSeq(t, 1, RunNotIn(t, {"/", ":"} \cup Whitespace))
      hits == { i \in 1..Len(action) :
                  UrlPrefixAt(action, i) > 0 /\ hostAt(i) # <<>> }
  IN IF hits = {} THEN NoHost
     ELSE Host(hostAt(CHOOSE i \in hits : \A j \in hits : i <= j))

\* new URL(token).hostname: a token without a scheme throws; of a token
\* scheme://host... the host; of another token with a scheme the empty string
urlHostname(token) ==
  LET n == RunIn(token, WordChars \cup {"+", "-", "."}) IN
  IF token = <<>> \/ Head(token) \notin Letters THEN NoHost
  ELSE IF n >= Len(token) \/ token[n + 1] # ":" THEN NoHost
  ELSE LET t == Drop(token, n + 1) IN
       IF StartsWith(t, <<"/", "/">>)
       THEN LET h == Drop(t, 2) IN
            Host(SubSeq(h, 1, RunNotIn(h, {"/", ":", "?", "#"})))
       ELSE Host(<<>>)

\* action.match(/^\w+\s+(\S+)/), then new URL(group 1).hostname
methodMatch(action) ==
  LET w1   == RunIn(action, WordChars)
      r1   == Drop(action, w1)
      w2   == RunIn(r1, Whitespace)
      r2   == Drop(r1, w2)
      tok  == SubSeq(r2, 1, RunNotIn(r2, Whitespace))
  IN IF w1 = 0 \/ w2 = 0 \/ tok = <<>> THEN NoHost
     ELSE urlHostname(tok)

\* extractNetworkHost(action): [ok, host], ok FALSE for null
extractNetworkHost(action) ==
  IF connectMatch(action).ok THEN connectMatch(action)
  ELSE IF urlMatch(action).ok THEN urlMatch(action)
  ELSE methodMatch(action)

\* /^\d+\.\d+\.\d+\.\d+$/.test(host)
IsIPv4(host) ==
  LET parts == Split(host, ".") IN
  /\ Len(parts) = 4
  /\ \A i \in 1..4 :
        /\ parts[i] # <<>>
        /\ \A j \in 1..Len(parts[i]) : parts[i][j] \in Digits

\* action.replace(/^sync\s+/, "")
stripSync(action) ==
  IF StartsWith(action, sSync) /\ RunIn(Drop(action, 4), Whitespace) > 0
  THEN Drop(action, 4 + RunIn(Drop(action, 4), Whitespace))
  ELSE action

sPush == <<"p","u","s","h">>

\* action.replace(/^push\s+/, "")
stripPush(action) ==
  IF StartsWith(action, sPush) /\ RunIn(Drop(action, 4), Whitespace) > 0
  THEN Drop(action, 4 + RunIn(Drop(action, 4), Whitespace))
  ELSE action

RuleOf(category, pattern) == CatChars(category) \o <<"(">> \o pattern \o <<")">>

\* generateRule(category, action)
generateRule(category, action) ==
  CASE category = "network" ->
         LET h == extractNetworkHost(action) IN
         IF h.ok /\ h.host # <<>>
         THEN IF IsIPv4(h.host) THEN RuleOf("network", h.host)
              ELSE LET parts == Split(h.host, ".") IN
                   IF Len(parts) >= 2
                   THEN RuleOf("network",
                          <<"*", ".">> \o parts[Len(parts) - 1] \o <<".">> \o parts[Len(parts)])
                   ELSE RuleOf("network", h.host)
         ELSE RuleOf("network", action)
    [] category = "exec" -> RuleOf("exec", action)
    [] category = "filesystem" ->
         LET path == stripSync(action)
             dir  == SubSeq(path, 1, LastIndexOf(path, "/"))
         IN IF dir # <<>> THEN RuleOf("filesystem", dir \o <<"*">>)
            ELSE RuleOf("filesystem", path)
    [] category = "git" -> RuleOf("git", stripPush(action))
    [] category = "packages" -> RuleOf("packages", action)
    [] category = "sandbox" -> RuleOf("sandbox", action)

\* getMatchTarget(req)
getMatchTarget(req) ==
  IF req.category = "network"
  THEN LET h == extractNetworkHost(req.action) IN
       IF h.ok /\ h.host # <<>> THEN h.host ELSE req.action
  ELSE IF req.category = "filesystem" THEN stripSync(req.action)
  ELSE req.action

\* the loop of autoResolveMatching over the snapshot queue.pending()
RECURSIVE autoLoop(_, _, _, _)
autoLoop(q, rs, ids, status) ==
  IF ids = <<>> THEN q
  ELSE LET req == q.requests[Head(ids)]
           v   == evaluateRules(rs, req.category, getMatchTarget(req))
       IN IF v = (IF status = "approved" THEN "allow" ELSE "deny")
          THEN autoLoop(resolveOp(q, Head(ids), status, "auto", NoReaction).q,
                        rs, Tail(ids), status)
          ELSE autoLoop(q, rs, Tail(ids), status)

\* autoResolveMatching(status), with rules = getRules()
autoResolveMatching(q, rs, status) ==
  autoLoop(q, rs, IdSeq(pending(q)), status)

(***************************************************************************)
(* sync.ts: applyFilesystemRequest.  The content of a workspace file is    *)
(* "absent", "old" (it contains the old_string of the Edit requests),      *)
(* "new" (the Edit was applied) or "written" (the writeContent of a Write).*)
(***************************************************************************)
Contents == {"absent", "old", "new", "written"}

\* does applyFilesystemRequest reach an await (file I/O) for this request?
applyAwaits(req) ==
  /\ req.toolName # "none"
  /\ req.targetFile # NoFile
  /\ req.toolName \in {"Write", "Edit"}
  /\ req.payload

\* applyFilesystemRequest(req) on the workspace -> [ok, files]
applyFilesystemRequest(req, fs) ==
  IF req.toolName = "none" \/ req.targetFile = NoFile
  THEN [ok |-> FALSE, files |-> fs]
  ELSE IF req.toolName = "Write"
       THEN IF ~req.payload THEN [ok |-> FALSE, files |-> fs]
            ELSE [ok |-> TRUE, files |-> [fs EXCEPT ![req.targetFile] = "written"]]
  ELSE IF req.toolName = "Edit"
       THEN IF ~req.payload THEN [ok |-> FALSE, files |-> fs]
            ELSE IF fs[req.targetFile] = "absent" THEN [ok |-> FALSE, files |-> fs]
            ELSE IF fs[req.targetFile] # "old" THEN [ok |-> FALSE, files |-> fs]
            ELSE [ok |-> TRUE, files |-> [fs EXCEPT ![req.targetFile] = "new"]]
  ELSE [ok |-> FALSE, files |-> fs]

(***************************************************************************)
(* server.ts: POST /api/queue, the approve and deny handlers (HTTP and     *)
(* WebSocket).  A handler that reaches an await with file or config I/O    *)
(* stops there (stage "applying", "saving",                                *)
(* "savingProposal") and resumes in a later step.                          *)
(***************************************************************************)
\* number of approve / deny calls handled
MaxFlows == 2

NoRule == <<>>

\* POST /api/queue
PostQueue(category, action, metadata) ==
  /\ pc # "exited"
  /\ counter < MaxReq
  /\ LET r == requestOp(QS, category, action, metadata, NoReaction) IN
       /\ SetQ(r.q)
       /\ lastCall' = [op |-> "request", ok |-> TRUE, n |-> r.id]
  /\ UNCHANGED <<policyVars, obsVars, sysVars>>

NewFlow(kind, via, id, always) ==
  [kind |-> kind, via |-> via, id |-> id, always |-> always,
   found |-> id \in DOMAIN requests,
   wasPending |-> id \in pending(QS),
   stage |-> "start", applied |-> "none", ok |-> "none",
   rule |-> NoRule, ruleAdded |-> FALSE, proposalApplied |-> FALSE,
   response |-> "none"]

\* does the always-allow / always-deny part run?  HTTP: `ok && ...`;
\* WebSocket: whatever queue.approve / queue.deny returned
alwaysGuard(via, ok) == IF via = "http" THEN ok ELSE TRUE

\* the handler from the always-allow / always-deny test to its first await
\* or its end; st = [q, rules, files, flow]
afterDecision(st, f, status) ==
  LET req  == st.q.requests[f.id]
      rule == generateRule(req.category, req.action)
      ar   == addRuleOp(st.rules, IF status = "approved" THEN "allow" ELSE "deny", rule)
      f1   == [f EXCEPT !.rule = rule, !.ruleAdded = ar.ret]
  IN IF ~ar.ret
     THEN [st EXCEPT !.flow = [f1 EXCEPT !.stage = "done", !.response = "200"]]
     ELSE IF f.via = "http"
          THEN \* await saveConfig()
               [st EXCEPT !.rules = ar.rules,
                          !.flow = [f1 EXCEPT !.stage = "saving"]]
          ELSE \* saveConfig() is not awaited
               [st EXCEPT !.rules = ar.rules,
                          !.q = autoResolveMatching(st.q, ar.rules, status),
                          !.flow = [f1 EXCEPT !.stage = "done", !.response = "200"]]

\* the always-allow / always-deny test of the handler and what follows it
alwaysPart(st, f, status) ==
  IF f.always /\ f.found /\ alwaysGuard(f.via, f.ok = "true")
  THEN afterDecision(st, f, status)
  ELSE [st EXCEPT !.flow = [f EXCEPT !.stage = "done", !.response = "200"]]

\* does the handler apply the proposal of the request?  Only the HTTP
\* approve handler has the branch
proposalGuard(via, status, ok, req) ==
  /\ via = "http"
  /\ status = "approved"
  /\ ok
  /\ req.category = "sandbox"
  /\ req.proposal # NoProposal

\* queue.approve / queue.deny and what follows it in the handler
decide(st, f, status) ==
  LET r  == resolveOp(st.q, f.id, status, "web", NoReaction)
      f1 == [f EXCEPT !.ok = IF r.ret THEN "true" ELSE "false"]
      s1 == [st EXCEPT !.q = r.q, !.flow = f1]
  IN IF f.found /\ proposalGuard(f.via, status, r.ret, st.q.requests[f.id])
     THEN \* applyConfigChange(proposal); await saveConfig()
          LET pr == st.q.requests[f.id].proposal
              c  == applyConfigChange(st.categories, pr.parts, pr.value)
          IN [s1 EXCEPT !.categories = c.categories,
                        !.flow = [f1 EXCEPT !.proposalApplied = TRUE,
                                            !.stage = "savingProposal"]]
     ELSE alwaysPart(s1, f1, status)

\* the approve handler from the call of applyFilesystemRequest (when the
\* request is a filesystem request with a toolName) to its first await with
\* config I/O or its end
approveRest(st, f) ==
  LET apply == /\ f.found
               /\ st.q.requests[f.id].category = "filesystem"
               /\ st.q.requests[f.id].toolName # "none"
      a     == applyFilesystemRequest(st.q.requests[f.id], st.files)
  IN IF apply /\ ~a.ok
     THEN LET r == resolveOp(st.q, f.id, "denied", "web", NoReaction) IN
          [st EXCEPT !.q = r.q,
                     !.flow = [f EXCEPT !.applied = "failed",
                                        !.ok = "false",
                                        !.stage = "done",
                                        !.response = IF f.via = "http" THEN "409" ELSE "ws-error"]]
     ELSE decide([st EXCEPT !.files = IF apply THEN a.files ELSE @],
                 [f EXCEPT !.applied = IF apply THEN "ok" ELSE "none"], "approved")

ST == [q |-> QS, rules |-> rules, categories |-> categories, files |-> files,
       flow |-> NoRule]

SetST(st, i) ==
  /\ SetQ(st.q)
  /\ rules' = st.rules
  /\ categories' = st.categories
  /\ files' = st.files
  /\ flows' = IF i > Len(flows) THEN Append(flows, st.flow)
              ELSE [flows EXCEPT ![i] = st.flow]

RuleRoom == Len(rules.allow) + Len(rules.deny) < MaxRules

\* POST /api/queue/:id/approve, or the WebSocket message {type: "approve"}
ApproveStart(via, id, always) ==
  /\ pc # "exited"
  /\ Len(flows) < MaxFlows
  /\ always => RuleRoom
  /\ LET f == NewFlow("approve", via, id, always) IN
     IF /\ f.found
        /\ requests[id].category = "filesystem"
        /\ applyAwaits(requests[id])
     THEN /\ flows' = Append(flows, [f EXCEPT !.stage = "applying"])
          /\ UNCHANGED <<rules, categories, files, requests, waiters, counter, promise, log, persistVars>>
     ELSE SetST(approveRest(ST, f), Len(flows) + 1)
  /\ UNCHANGED <<allowedEndpoints, obsVars, lastCall,
                 execRequests, proxies, pc, syncMark, shutdownDenied, brokerVars, ioVars>>

\* POST /api/queue/:id/deny, or the WebSocket message {type: "deny"}
DenyStart(via, id, always) ==
  /\ pc # "exited"
  /\ Len(flows) < MaxFlows
  /\ always => RuleRoom
  /\ SetST(decide(ST, NewFlow("deny", via, id, always), "denied"), Len(flows) + 1)
  /\ UNCHANGED <<allowedEndpoints, obsVars, lastCall,
                 execRequests, proxies, pc, syncMark, shutdownDenied, brokerVars, ioVars>>

\* applyFilesystemRequest returns to the approve handler
ApplyReturns(i) ==
  /\ pc # "exited"
  /\ i \in 1..Len(flows)
  /\ flows[i].stage = "applying"
  /\ SetST(approveRest(ST, flows[i]), i)
  /\ UNCHANGED <<allowedEndpoints, obsVars, lastCall,
                 execRequests, proxies, pc, syncMark, shutdownDenied, brokerVars, ioVars>>

\* saveConfig returns to the HTTP handler: broadcast, autoResolveMatching
SaveReturns(i) ==
  /\ pc # "exited"
  /\ i \in 1..Len(flows)
  /\ flows[i].stage = "saving"
  /\ LET status == IF flows[i].kind = "approve" THEN "approved" ELSE "denied"
         st == [ST EXCEPT !.q = autoResolveMatching(QS, getRules, status),
                          !.flow = [flows[i] EXCEPT !.stage = "done", !.response = "200"]]
     IN SetST(st, i)
  /\ UNCHANGED <<allowedEndpoints, obsVars, lastCall,
                 execRequests, proxies, pc, syncMark, shutdownDenied, brokerVars, ioVars>>

\* saveConfig returns to the HTTP approve handler after applyConfigChange:
\* the always-allow part follows
ProposalSaved(i) ==
  /\ pc # "exited"
  /\ i \in 1..Len(flows)
  /\ flows[i].stage = "savingProposal"
  /\ SetST(alwaysPart([ST EXCEPT !.flow = flows[i]], flows[i], "approved"), i)
  /\ UNCHANGED <<allowedEndpoints, obsVars, lastCall,
                 execRequests, proxies, pc, syncMark, shutdownDenied, brokerVars, ioVars>>

\* the characters of a key of a proposal path
KeyChars(k) ==
  CASE k = "categories" -> <<"c","a","t","e","g","o","r","i","e","s">>
    [] k = "mode"       -> <<"m","o","d","e">>
    [] k = "nosuch"     -> <<"n","o","s","u","c","h">>
    [] k = "key"        -> <<"k","e","y">>
    [] OTHER            -> CatChars(k)

\* proposal.path, the keys joined by "."
RECURSIVE PathChars(_)
PathChars(parts) ==
  IF Len(parts) = 1 THEN KeyChars(parts[1])
  ELSE KeyChars(parts[1]) \o <<".">> \o PathChars(Tail(parts))

\* `config change: ${proposal.path}`
proposeAction(parts) ==
  <<"c","o","n","f","i","g"," ","c","h","a","n","g","e",":"," ">> \o PathChars(parts)

\* POST /api/config/propose
PostPropose(parts, value) ==
  /\ pc # "exited"
  /\ counter < MaxReq
  /\ LET r == requestOp(QS, "sandbox", proposeAction(parts),
                        ProposalMeta(parts, value), NoReaction) IN
       /\ SetQ(r.q)
       /\ lastCall' = [op |-> "request", ok |-> TRUE, n |-> r.id]
  /\ UNCHANGED <<policyVars, obsVars, sysVars>>

(***************************************************************************)
(* sync.ts: requestFileSync(files).  A call is a record: the paths of      *)
(* `files`, the mode read at the start, the index of the file the loop is  *)
(* at, `needsQueue`, and per file the verdict evaluateRules gave, the id   *)
(* of the request enqueued for it (-1 for none), its entry in `results`    *)
(* ("none" while unset) and whether syncFile copied it.  The call stops at each await: `await syncFile`   *)
(* in the loop (stage "copying") and the await of the queued promises      *)
(* (stage "waiting").                                                      *)
(***************************************************************************)
\* number of requestFileSync calls
MaxSyncs == 2

sSyncPrefix == <<"s","y","n","c"," ">>

NewSync(paths, mode) ==
  [files |-> paths, mode |-> mode, idx |-> 1, needsQueue |-> <<>>,
   verdicts |-> [k \in 1..Len(paths) |-> "none"],
   qids |-> [k \in 1..Len(paths) |-> 0 - 1],
   results |-> [k \in 1..Len(paths) |-> "none"],
   copied |-> [k \in 1..Len(paths) |-> FALSE],
   stage |-> "loop"]

RECURSIVE syncEnqueue(_, _, _)
\* for (const f of needsQueue) queue.request("filesystem", `sync ${f.path}`..)
\* ks: the indices of the files of needsQueue still to enqueue
syncEnqueue(q, s, ks) ==
  IF ks = <<>> THEN [q |-> q, s |-> s]
  ELSE LET r == requestOp(q, "filesystem", sSyncPrefix \o s.files[Head(ks)],
                          NoMeta, NoReaction)
       IN syncEnqueue(r.q, [s EXCEPT !.qids[Head(ks)] = r.id], Tail(ks))

\* requestFileSync when the mode is deny-all: every file maps to false
syncDenyAll(s) ==
  [s EXCEPT !.results = [k \in 1..Len(s.files) |-> "false"], !.stage = "done"]

\* if (mode === "deny-all"), tested before the loop over the files
syncDenyAllFirst(mode) == mode = "deny-all"

RECURSIVE syncLoop(_, _, _)
\* the loop over `files` from s.idx to its next `await syncFile`, or to its
\* end and then the enqueuing of needsQueue -> [q, s]
syncLoop(q, rs, s) ==
  IF s.idx > Len(s.files)
  THEN LET e == syncEnqueue(q, s, s.needsQueue) IN
       [q |-> e.q,
        s |-> [e.s EXCEPT !.stage = IF s.needsQueue = <<>> THEN "done" ELSE "waiting"]]
  ELSE LET k == s.idx
           v == evaluateRules(rs, "filesystem", s.files[k])
           s1 == [s EXCEPT !.verdicts[k] = v]
       IN IF v = "deny"
          THEN syncLoop(q, rs, [s1 EXCEPT !.results[k] = "false", !.idx = k + 1])
          ELSE IF v = "allow" \/ s.mode = "allow-all"
               THEN [q |-> q, s |-> [s1 EXCEPT !.stage = "copying"]]
               ELSE syncLoop(q, rs, [s1 EXCEPT !.needsQueue = Append(@, k),
                                               !.idx = k + 1])

\* the requests the calls in their loop may still enqueue
RECURSIVE Reserved(_)
Reserved(i) ==
  IF i = 0 THEN 0
  ELSE Reserved(i - 1) +
       (IF syncs[i].stage = "copying" THEN Len(syncs[i].files) ELSE 0)

\* requestFileSync(files) until its first await
SyncStart(paths) ==
  /\ pc # "exited"
  /\ Len(syncs) < MaxSyncs
  /\ counter + Reserved(Len(syncs)) + Len(paths) <= MaxReq
  /\ LET mode == getCategoryMode("filesystem")
         s    == NewSync(paths, mode)
     IN IF syncDenyAllFirst(mode)
        THEN /\ syncs' = Append(syncs, syncDenyAll(s))
             /\ UNCHANGED <<requests, waiters, counter, promise, log, persistVars>>
        ELSE LET r == syncLoop(QS, getRules, s) IN
             /\ SetQ(r.q)
             /\ syncs' = Append(syncs, r.s)
  /\ UNCHANGED <<policyVars, obsVars, lastCall, execRequests, proxies, pc,
                 syncMark, shutdownDenied, flows, files, hostFiles, gitSyncs,
                 pkgRequests, ioVars>>

\* `await syncFile(f.path)` of the loop returns: results.set(f.path, true),
\* and the loop goes on
SyncCopied(i) ==
  /\ pc # "exited"
  /\ i \in 1..Len(syncs)
  /\ syncs[i].stage = "copying"
  /\ LET s == syncs[i]
         k == s.idx
         r == syncLoop(QS, getRules,
                       [s EXCEPT !.copied[k] = TRUE, !.results[k] = "true",
                                 !.idx = k + 1, !.stage = "loop"])
     IN /\ hostFiles' = hostFiles \cup {s.files[k]}
        /\ SetQ(r.q)
        /\ syncs' = [syncs EXCEPT ![i] = r.s]
  /\ UNCHANGED <<policyVars, obsVars, lastCall, execRequests, proxies, pc,
                 syncMark, shutdownDenied, flows, files, gitSyncs, pkgRequests, ioVars>>

\* the promise of the request enqueued for file k has settled: the file is
\* copied when it yielded true, and results.set(file.path, approved)
SyncSettled(i, k) ==
  /\ pc # "exited"
  /\ i \in 1..Len(syncs)
  /\ syncs[i].stage = "waiting"
  /\ k \in 1..Len(syncs[i].files)
  /\ syncs[i].qids[k] # 0 - 1
  /\ syncs[i].results[k] = "none"
  /\ promise[syncs[i].qids[k]] # "pending"
  /\ LET approved == promise[syncs[i].qids[k]] = "true"
         s1 == [syncs[i] EXCEPT !.copied[k] = approved,
                                !.results[k] = IF approved THEN "true" ELSE "false"]
         s2 == IF \A j \in 1..Len(s1.files) : s1.results[j] # "none"
               THEN [s1 EXCEPT !.stage = "done"] ELSE s1
     IN /\ hostFiles' = IF approved THEN hostFiles \cup {syncs[i].files[k]} ELSE hostFiles
        /\ syncs' = [syncs EXCEPT ![i] = s2]
  /\ UNCHANGED <<policyVars, obsVars, queueVars, execRequests, proxies, pc,
                 syncMark, shutdownDenied, flows, files, gitSyncs, pkgRequests, ioVars>>

(***************************************************************************)
(* git-sync.ts: requestGitSync(branch).  A call is a record: the branch,   *)
(* the mode read at the start, the id of the request enqueued (-1 for      *)
(* none), whether `git push real-remote <branch>` was run, and the value   *)
(* returned ("none" while the call runs).  The call stops at each await:   *)
(* performGitSync under allow-all (stage "pushing"), listUnsyncedBranches  *)
(* (stage "listing") and the queued promise (stage "waiting").             *)
(***************************************************************************)
\* number of requestGitSync calls
MaxGitSyncs == 2

bMain == <<"m">>
bDev  == <<"d">>
Branches == {bMain, bDev}

rGitMain == CatChars("git") \o <<"(">> \o bMain \o <<")">>

\* requestGitSync up to its first await -> the stage it stops in
gitDecision(mode) ==
  IF mode = "deny-all" THEN "done"
  ELSE IF mode = "allow-all" THEN "pushing"
  ELSE "listing"

\* requestGitSync(branch) until its first await
GitSyncStart(branch) ==
  /\ pc # "exited"
  /\ Len(gitSyncs) < MaxGitSyncs
  /\ LET mode == getCategoryMode("git")
         dec  == gitDecision(mode)
     IN gitSyncs' = Append(gitSyncs,
                      [branch |-> branch, mode |-> mode, qid |-> 0 - 1,
                       pushed |-> FALSE,
                       result |-> IF dec = "done" THEN "false" ELSE "none",
                       stage |-> dec])
  /\ UNCHANGED <<policyVars, obsVars, queueVars, execRequests, proxies, pc,
                 syncMark, shutdownDenied, flows, files, syncs, hostFiles,
                 pkgRequests, ioVars>>

\* `await performGitSync(branch)` returns under allow-all: return true
GitPushed(i) ==
  /\ pc # "exited"
  /\ i \in 1..Len(gitSyncs)
  /\ gitSyncs[i].stage = "pushing"
  /\ gitSyncs' = [gitSyncs EXCEPT ![i].pushed = TRUE, ![i].result = "true",
                                  ![i].stage = "done"]
  /\ UNCHANGED <<policyVars, obsVars, queueVars, execRequests, proxies, pc,
                 syncMark, shutdownDenied, flows, files, syncs, hostFiles,
                 pkgRequests, ioVars>>

\* `await listUnsyncedBranches()` returns: queue.request("git", `push ..`)
GitListed(i) ==
  /\ pc # "exited"
  /\ i \in 1..Len(gitSyncs)
  /\ gitSyncs[i].stage = "listing"
  /\ counter < MaxReq
  /\ LET r == requestOp(QS, "git", sPush \o <<" ">> \o gitSyncs[i].branch,
                        NoMeta, NoReaction)
     IN /\ SetQ(r.q)
        /\ gitSyncs' = [gitSyncs EXCEPT ![i].qid = r.id, ![i].stage = "waiting"]
  /\ UNCHANGED <<policyVars, obsVars, lastCall, execRequests, proxies, pc,
                 syncMark, shutdownDenied, flows, files, syncs, hostFiles,
                 pkgRequests, ioVars>>

\* the promise has settled: if (approved) await performGitSync(branch);
\* return approved
GitSettled(i) ==
  /\ pc # "exited"
  /\ i \in 1..Len(gitSyncs)
  /\ gitSyncs[i].stage = "waiting"
  /\ promise[gitSyncs[i].qid] # "pending"
  /\ LET approved == promise[gitSyncs[i].qid] = "true" IN
       gitSyncs' = [gitSyncs EXCEPT ![i].pushed = approved,
                                    ![i].result = IF approved THEN "true" ELSE "false",
                                    ![i].stage = "done"]
  /\ UNCHANGED <<policyVars, obsVars, queueVars, execRequests, proxies, pc,
                 syncMark, shutdownDenied, flows, files, syncs, hostFiles,
                 pkgRequests, ioVars>>

(***************************************************************************)
(* SpecExec: the server with its exec broker, the operator's decisions,    *)
(* rule changes and the shutdown.                                          *)
(***************************************************************************)
Commands == {tLs, tRm}

Init == InitPolicy /\ InitQueue /\ InitSys

\* the operator's decisions and the shutdown, common to the server specs
NextOperator(category) ==
  \/ \E id \in AllIds : pc # "exited" /\ Approve(id, "web")
  \/ \E id \in AllIds : pc # "exited" /\ Deny(id, "web")
  \/ \E st \in Statuses : pc # "exited" /\ BulkResolve(category, st, "web")
  \/ ShutdownStart
  \/ ShutdownFinish

NextExec ==
  \/ \E c \in Commands : SubmitExec(c)
  \/ \E i \in 1..MaxExec : ExecContinue(i)
  \/ \E i \in 1..MaxExec, o \in {"exit", "throw"} : ExecFinish(i, o)
  \/ \E t \in {"allow", "deny"} : pc # "exited" /\ AddRule(t, rExecLs)
  \/ NextOperator("exec")

SpecExec == Init /\ [][NextExec]_vars

(***************************************************************************)
(* SpecProxy: the server with its proxy, the operator's decisions, changes *)
(* of the network mode and the shutdown.                                   *)
(***************************************************************************)
NextProxy ==
  \/ \E k \in {"CONNECT", "HTTP"}, h \in Hosts : ProxyStart(k, h)
  \/ \E i \in 1..MaxProxy : ProxyResume(i)
  \/ \E m \in Modes : pc # "exited" /\ SetCategoryMode("network", m)
  \/ NextOperator("network")

SpecProxy == Init /\ [][NextProxy]_vars

(***************************************************************************)
(* C3: when gracefulShutdown reaches process exit no request is pending;   *)
(* every request that was pending at the denial step, the ones submitted   *)
(* while fullSync was awaited included, is denied with resolvedBy auto,    *)
(* and its waiter has been called with false and removed.                  *)
(***************************************************************************)
C3_NoPendingAtExit ==
  pc = "exited" =>
    /\ \A id \in DOMAIN requests : requests[id].status # "pending"
    /\ \A id \in shutdownDenied :
          /\ requests[id].status = "denied"
          /\ requests[id].resolvedBy = "auto"
          /\ promise[id] = "false"
    /\ waiters = {}

\* exit with a request that was submitted during fullSync and denied by it
C3_Witness ==
  /\ pc = "exited"
  /\ \E id \in shutdownDenied : id >= syncMark
  /\ \E id \in shutdownDenied : id < syncMark

(***************************************************************************)
(* C18: the steps of gracefulShutdown occur in this order: live sync       *)
(* stopped, fullSync completed, every pending request denied with          *)
(* resolvedBy auto, `shutdown` broadcast, process exit.  No request is     *)
(* denied by the shutdown before a fullSync has completed, and the         *)
(* broadcast follows the resolve event of the last denial.                 *)
(***************************************************************************)
Steps(type) == { i \in 1..Len(log) : log[i].type = type }

C18_ShutdownOrder ==
  /\ \A f \in Steps("fullSync") : \E s \in Steps("stopLiveSync") : s < f
  /\ \A b \in Steps("shutdown") : \E f \in Steps("fullSync") : f < b
  /\ \A e \in Steps("exit") :
        /\ e = Len(log)
        /\ e - 1 \in Steps("shutdown")
  /\ Cardinality(Steps("shutdown")) <= 1
  /\ (pc = "exited") <=> (Steps("exit") # {})
  /\ \A id \in DOMAIN requests :
        requests[id].resolvedBy = "auto" =>
           /\ requests[id].status = "denied"
           /\ id \in shutdownDenied
           /\ \A r \in Positions("resolve", id) :
                 /\ \E f \in Steps("fullSync") : f < r
                 /\ \E b \in Steps("shutdown") : r < b
  /\ pc = "exited" =>
        /\ \A id \in shutdownDenied : requests[id].resolvedBy = "auto"
        /\ \A id \in DOMAIN requests : requests[id].status # "pending"

\* an exit after two requests were denied by the shutdown, one of them made
\* while fullSync was awaited
C18_Witness ==
  /\ pc = "exited"
  /\ Cardinality(shutdownDenied) = 2
  /\ \E id \in shutdownDenied : id >= syncMark

(***************************************************************************)
(* C5: submitExec runs the command only if the rules verdict at submission *)
(* was allow or the exec request it enqueued was approved; with verdict    *)
(* deny, or once the queued request is denied, the command is never run    *)
(* and the ExecRequest is denied as soon as its continuation has run.      *)
(***************************************************************************)
C5_ExecOnlyWhenAllowed ==
  \A i \in 1..Len(execRequests) :
    LET e == execRequests[i] IN
    /\ e.spawned =>
         \/ e.verdict = "allow"
         \/ (e.idKind = "req" /\ requests[e.qid].status = "approved")
    /\ e.status \in {"running", "completed", "failed"} => e.spawned
    /\ e.verdict = "deny" => (~e.spawned /\ e.status = "denied")
    /\ (e.idKind = "req" /\ requests[e.qid].status = "denied") =>
         /\ ~e.spawned
         /\ e.status = (IF e.continued THEN "denied" ELSE "pending")
    /\ e.idKind = "req" =>
         (requests[e.qid].category = "exec" /\ requests[e.qid].action = e.command)

\* a queued exec whose request was denied: its record is denied, nothing ran
C5_Witness ==
  \E i \in 1..Len(execRequests) :
     /\ execRequests[i].idKind = "req"
     /\ requests[execRequests[i].qid].status = "denied"
     /\ execRequests[i].continued
     /\ execRequests[i].status = "denied"

(***************************************************************************)
(* C6: for a host that is not allow-listed, under network mode             *)
(* approve-each, both proxy paths enqueue a network request and neither    *)
(* forward nor answer before it is resolved; they proceed only if it was   *)
(* approved and answer 403 citing the request id only if it was denied.    *)
(***************************************************************************)
C6_ProxyWaitsForDecision ==
  \A i \in 1..Len(proxies) :
    LET h == proxies[i] IN
    (~h.allowed /\ h.mode = "approve-each") =>
       /\ h.qid \in DOMAIN requests
       /\ requests[h.qid].category = "network"
       /\ h.response \in {"none", "proceed", "403-denied"}
       /\ requests[h.qid].status = "pending" => h.response = "none"
       /\ h.response = "proceed" <=>
            (h.response # "none" /\ requests[h.qid].status = "approved")
       /\ h.response = "403-denied" <=>
            (h.response # "none" /\ requests[h.qid].status = "denied")
       /\ h.response = "403-denied" => h.cited = h.qid

\* a CONNECT answered 403 after denial and an HTTP request forwarded after
\* approval
C6_Witness ==
  /\ \E i \in 1..Len(proxies) :
        /\ proxies[i].kind = "CONNECT"
        /\ proxies[i].mode = "approve-each"
        /\ proxies[i].response = "403-denied"
  /\ \E i \in 1..Len(proxies) :
        /\ proxies[i].kind = "HTTP"
        /\ proxies[i].mode = "approve-each"
        /\ proxies[i].response = "proceed"
        /\ proxies[i].qid >= 0

(***************************************************************************)
(* The control plane: requests posted to the queue and the operator's      *)
(* approve / deny calls over HTTP and WebSocket.  SpecApply follows the    *)
(* filesystem requests that are applied at approval; SpecAlways follows    *)
(* the always-allow / always-deny flag and the rules added through         *)
(* POST /api/rules.                                                        *)
(***************************************************************************)
aEdit    == <<"E","d","i","t"," ","s","/","f">>
aWrite   == <<"W","r","i","t","e"," ","s","/","f">>
aSync    == <<"s","y","n","c"," ","s","/","f">>
aConnect == <<"C","O","N","N","E","C","T"," ","e",".","x",":","4","4","3">>

\* (category, action, metadata) of the filesystem requests posted
ApplyInputs ==
  { <<"filesystem", aEdit, ToolMeta("Edit", FooFile, TRUE)>>,
    <<"filesystem", aEdit, ToolMeta("Edit", FooFile, FALSE)>>,
    <<"filesystem", aWrite, ToolMeta("Write", FooFile, TRUE)>> }

\* (category, action, metadata) of the other requests posted
AlwaysInputs ==
  { <<"exec", tLs, NoMeta>>,
    <<"network", aConnect, NoMeta>>,
    <<"filesystem", aSync, NoMeta>> }

InitServer ==
  /\ InitPolicy
  /\ InitQueue
  /\ execRequests = <<>>
  /\ proxies = <<>>
  /\ pc = "running"
  /\ syncMark = 0
  /\ shutdownDenied = {}
  /\ flows = <<>>
  /\ InitBrokers
  /\ InitIo
  /\ files \in { [f \in Files |-> IF f = FooFile THEN c ELSE "old"] : c \in {"old", "absent"} }

\* the ids the operator names: each is minted at some time, or never
FlowIds == 0..(MaxReq - 1)

NextApply ==
  \/ \E in \in ApplyInputs : PostQueue(in[1], in[2], in[3])
  \/ \E via \in {"http", "ws"}, id \in FlowIds : ApproveStart(via, id, FALSE)
  \/ \E id \in FlowIds : DenyStart("http", id, FALSE)
  \/ \E i \in 1..MaxFlows : ApplyReturns(i)
  \/ \E st \in Statuses : BulkResolve("filesystem", st, "web")

SpecApply == InitServer /\ [][NextApply]_vars

NextAlways ==
  \/ \E in \in AlwaysInputs : PostQueue(in[1], in[2], in[3])
  \/ \E via \in {"http", "ws"}, id \in FlowIds, always \in BOOLEAN :
        ApproveStart(via, id, always)
  \/ \E via \in {"http", "ws"}, id \in FlowIds, always \in BOOLEAN :
        DenyStart(via, id, always)
  \/ \E i \in 1..MaxFlows : SaveReturns(i)
  \/ AddRule("allow", rExecLs)

SpecAlways == InitServer /\ [][NextAlways]_vars

\* requestFileSync with rules in the config
SyncRuleSets ==
  { NoRules,
    [allow |-> <<rFsDir>>, deny |-> <<>>],
    [allow |-> <<>>, deny |-> <<rFsDir>>] }

SyncInputs == { <<tFile, tDeep>>, <<tFile>> }

InitSync ==
  /\ rules \in SyncRuleSets
  /\ categories = DefaultCategories
  /\ allowedEndpoints = DefaultEndpoints
  /\ evalArgs = [category |-> "network", target |-> <<>>]
  /\ verdict = "unset"
  /\ modeArgs = "network"
  /\ modeResult = "unset"
  /\ cfgCall = NoCall
  /\ InitQueue
  /\ InitSys

NextSync ==
  \/ \E paths \in SyncInputs : SyncStart(paths)
  \/ \E i \in 1..MaxSyncs : SyncCopied(i)
  \/ \E i \in 1..MaxSyncs, k \in 1..2 : SyncSettled(i, k)
  \/ \E m \in Modes : SetCategoryMode("filesystem", m)
  \/ \E id \in AllIds : Approve(id, "web")
  \/ \E id \in AllIds : Deny(id, "web")

SpecSync == InitSync /\ [][NextSync]_vars

\* the exec and package brokers with rules in the config
BrokerRuleSets ==
  { NoRules,
    [allow |-> <<rExecLs, rPkgBunAdd>>, deny |-> <<>>],
    [allow |-> <<>>, deny |-> <<rExecLs, rPkgBunAdd>>] }

InitBroker ==
  /\ rules \in BrokerRuleSets
  /\ categories = DefaultCategories
  /\ allowedEndpoints = DefaultEndpoints
  /\ evalArgs = [category |-> "network", target |-> <<>>]
  /\ verdict = "unset"
  /\ modeArgs = "network"
  /\ modeResult = "unset"
  /\ cfgCall = NoCall
  /\ InitQueue
  /\ InitSys

NextBroker ==
  \/ \E c \in Commands : SubmitExec(c)
  \/ \E i \in 1..MaxExec : ExecContinue(i)
  \/ \E i \in 1..MaxExec, o \in RunOutcomes : ExecFinish(i, o)
  \/ \E in \in PkgInputs : SubmitPackage(in.manager, in.packages, in.action)
  \/ \E i \in 1..MaxPkg : PkgContinue(i)
  \/ \E i \in 1..MaxPkg, o \in RunOutcomes : PkgFinish(i, o)
  \/ \E id \in AllIds : Approve(id, "web")
  \/ \E id \in AllIds : Deny(id, "web")

SpecBroker == InitBroker /\ [][NextBroker]_vars

\* requestGitSync with rules in the config
GitRuleSets ==
  { NoRules,
    [allow |-> <<rGitMain>>, deny |-> <<>>],
    [allow |-> <<>>, deny |-> <<rGitMain>>] }

InitGit ==
  /\ rules \in GitRuleSets
  /\ categories = DefaultCategories
  /\ allowedEndpoints = DefaultEndpoints
  /\ evalArgs = [category |-> "network", target |-> <<>>]
  /\ verdict = "unset"
  /\ modeArgs = "network"
  /\ modeResult = "unset"
  /\ cfgCall = NoCall
  /\ InitQueue
  /\ InitSys

NextGit ==
  \/ \E b \in Branches : GitSyncStart(b)
  \/ \E i \in 1..MaxGitSyncs : GitPushed(i)
  \/ \E i \in 1..MaxGitSyncs : GitListed(i)
  \/ \E i \in 1..MaxGitSyncs : GitSettled(i)
  \/ \E m \in Modes : SetCategoryMode("git", m)
  \/ \E id \in AllIds : Approve(id, "web")
  \/ \E id \in AllIds : Deny(id, "web")

SpecGit == InitGit /\ [][NextGit]_vars

\* the proxy with rules in the config: the rule lists the config file can
\* hold when the server starts
ProxyRuleSets ==
  { NoRules,
    [allow |-> <<rNetDotX>>, deny |-> <<>>],
    [allow |-> <<>>, deny |-> <<rNetDotX>>] }

InitProxyRules ==
  /\ rules \in ProxyRuleSets
  /\ categories = DefaultCategories
  /\ allowedEndpoints = DefaultEndpoints
  /\ evalArgs = [category |-> "network", target |-> <<>>]
  /\ verdict = "unset"
  /\ modeArgs = "network"
  /\ modeResult = "unset"
  /\ cfgCall = NoCall
  /\ InitQueue
  /\ InitSys

NextProxyRules ==
  \/ \E k \in {"CONNECT", "HTTP"}, h \in Hosts : ProxyStart(k, h)
  \/ \E i \in 1..MaxProxy : ProxyResume(i)
  \/ \E m \in Modes : SetCategoryMode("network", m)
  \/ \E id \in AllIds : Approve(id, "web")
  \/ \E id \in AllIds : Deny(id, "web")

SpecProxyRules == InitProxyRules /\ [][NextProxyRules]_vars

\* the proposals posted: one that sets the network mode and one whose path
\* names no field of the config
Proposals ==
  { <<<<"categories", "network", "mode">>, "allow-all">>,
    <<<<"nosuch", "key">>, "allow-all">> }

NextSandbox ==
  \/ \E pr \in Proposals : PostPropose(pr[1], pr[2])
  \/ \E via \in {"http", "ws"}, id \in FlowIds, always \in BOOLEAN :
       ApproveStart(via, id, always)
  \/ \E via \in {"http", "ws"}, id \in FlowIds : DenyStart(via, id, FALSE)
  \/ \E i \in 1..MaxFlows : ProposalSaved(i)
  \/ \E i \in 1..MaxFlows : SaveReturns(i)
  \/ \E st \in Statuses : BulkResolve("sandbox", st, "web")

SpecSandbox == InitServer /\ [][NextSandbox]_vars

(***************************************************************************)
(* sync.ts: the live mirror.  Two forms of startLiveSync / stopLiveSync    *)
(* exist: one polls with rsync every SYNC_INTERVAL_MS, one watches the     *)
(* workspace and copies the changed paths after a 300 ms debounce.  Both   *)
(* begin with a poll for the workspace's .git/HEAD.                        *)
(***************************************************************************)
sGit         == <<".","g","i","t">>
sGitDir      == <<".","g","i","t","/">>
sNodeModules == <<"n","o","d","e","_","m","o","d","u","l","e","s","/">>

SKIP_PATTERNS == <<sGitDir, sNodeModules, sGit>>

\* shouldSkip with the comparison for equality only
shouldSkipExact(relPath) ==
  \E i \in 1..Len(SKIP_PATTERNS) : relPath = SKIP_PATTERNS[i]

\* shouldSkip(relPath)
shouldSkip(relPath) ==
  \E i \in 1..Len(SKIP_PATTERNS) :
    relPath = SKIP_PATTERNS[i] \/ StartsWith(relPath, SKIP_PATTERNS[i])

\* what has begun after stopLiveSync is kept in `late`
noteLate(m, what) ==
  IF m.stopped THEN [m EXCEPT !.late = @ \cup {what}] ELSE m

\* the readiness poll of the polling mirror finds .git/HEAD: clearInterval,
\* beginPolling() starts a fullSync and sets the rsync interval
PollReady ==
  /\ pc # "exited"
  /\ liveSync.checkInterval
  /\ liveSync' = noteLate([liveSync EXCEPT !.checkInterval = FALSE,
                                           !.syncTimer = TRUE], "beginPolling")
  /\ UNCHANGED <<policyVars, obsVars, queueVars, execRequests, proxies, pc,
                 syncMark, shutdownDenied, flows, files, brokerVars,
                 queueFile, writes, auditLog, watch>>

\* the rsync interval of the polling mirror ticks
SyncTick ==
  /\ pc # "exited"
  /\ liveSync.syncTimer
  /\ liveSync' = noteLate(liveSync, "tick")
  /\ UNCHANGED <<policyVars, obsVars, queueVars, execRequests, proxies, pc,
                 syncMark, shutdownDenied, flows, files, brokerVars,
                 queueFile, writes, auditLog, watch>>

\* the readiness poll of the watching mirror finds .git/HEAD: clearInterval,
\* beginWatching() starts a fullSync and the watcher
WatchReady ==
  /\ pc # "exited"
  /\ watch.checkInterval
  /\ watch' = noteLate([watch EXCEPT !.checkInterval = FALSE,
                                     !.watcher = TRUE], "beginWatching")
  /\ UNCHANGED <<policyVars, obsVars, queueVars, execRequests, proxies, pc,
                 syncMark, shutdownDenied, flows, files, brokerVars,
                 queueFile, writes, auditLog, liveSync>>

\* the watcher's callback for a change of `filename`
WatchEvent(filename) ==
  /\ pc # "exited"
  /\ watch.watcher
  /\ watch' = IF shouldSkip(filename) THEN [watch EXCEPT !.event = filename]
              ELSE [watch EXCEPT !.event = filename,
                                 !.pending = @ \cup {filename},
                                 !.timer = TRUE]
  /\ UNCHANGED <<policyVars, obsVars, queueVars, execRequests, proxies, pc,
                 syncMark, shutdownDenied, flows, files, brokerVars,
                 queueFile, writes, auditLog, liveSync>>

\* flush(), run by the debounce timer: every pending path is copied when its
\* source exists and removed from the mirror when it does not
Flush(existing) ==
  /\ pc # "exited"
  /\ watch.timer
  /\ existing \subseteq watch.pending
  /\ watch' = noteLate(
       [watch EXCEPT !.pending = {},
                     !.timer = FALSE,
                     !.mirror = [p \in Paths |->
                                   IF p \in existing THEN "copied"
                                   ELSE IF p \in watch.pending THEN "removed"
                                   ELSE @[p]]], "flush")
  /\ UNCHANGED <<policyVars, obsVars, queueVars, execRequests, proxies, pc,
                 syncMark, shutdownDenied, flows, files, brokerVars,
                 queueFile, writes, auditLog, liveSync>>

(***************************************************************************)
(* SpecWatch: the watching mirror while the server runs; a debounce timer  *)
(* that was set fires.                                                     *)
(***************************************************************************)
NextWatch ==
  \/ WatchReady
  \/ \E p \in Paths : WatchEvent(p)
  \/ \E ex \in SUBSET Paths : Flush(ex)

SpecWatch ==
  /\ InitQueueSpec
  /\ [][NextWatch]_vars
  /\ WF_vars(\E ex \in SUBSET Paths : Flush(ex))

\* the queue with its persistence, a graceful shutdown and a new start of
\* the server
NextRestart ==
  \/ \E in \in PersistInputs : Request(in[1], in[2], NoReaction)
  \/ \E id \in AllIds : Approve(id, "web")
  \/ PersistTimerFires
  \/ \E k \in 1..(2 * MaxReq) : WriteCompletes(k)
  \/ ShutdownStart
  \/ ShutdownFinish
  \/ Restart

SpecRestart == InitQueueSpec /\ [][NextRestart]_vars

\* both forms of the live mirror and the graceful shutdown
NextLive ==
  \/ PollReady
  \/ SyncTick
  \/ WatchReady
  \/ \E p \in Paths : WatchEvent(p)
  \/ \E ex \in SUBSET Paths : Flush(ex)
  \/ ShutdownStart
  \/ ShutdownFinish

SpecLive == InitQueueSpec /\ [][NextLive]_vars

\* the package broker alone, with bodies of POST /api/packages whose
\* packages array holds flags
PkgFlagInputs ==
  { PkgInput(wNpm, wInstall, <<wRegistry, wExpress>>),
    PkgInput(wNpm, wInstall, <<wDashD, wX>>),
    PkgInput(wBun, wAdd, <<wX>>) }

NextPackages ==
  \/ \E in \in PkgFlagInputs : SubmitPackage(in.manager, in.packages, in.action)
  \/ \E i \in 1..MaxPkg : PkgContinue(i)
  \/ \E i \in 1..MaxPkg, o \in RunOutcomes : PkgFinish(i, o)
  \/ \E id \in AllIds : Approve(id, "web")
  \/ \E id \in AllIds : Deny(id, "web")

SpecPackages == InitBroker /\ [][NextPackages]_vars

(***************************************************************************)
(* C19: in the approve flow for a filesystem request with                  *)
(* metadata.toolName, the flow approves the request only after             *)
(* applyFilesystemRequest returned ok; if the apply returned ok=false for  *)
(* a request that was pending when the approve arrived, the request ends   *)
(* denied, is never approved, and the HTTP caller receives 409.            *)
(***************************************************************************)
C19_ApproveOnlyAfterApply ==
  \A i \in 1..Len(flows) :
    LET f == flows[i] IN
    ( /\ f.kind = "approve"
      /\ f.found
      /\ requests[f.id].category = "filesystem"
      /\ requests[f.id].toolName # "none" ) =>
       /\ f.ok = "true" => f.applied = "ok"
       /\ (f.stage = "done" /\ f.applied # "ok") => f.applied = "failed"
       /\ (f.applied = "failed" /\ f.wasPending) =>
             /\ requests[f.id].status = "denied"
             /\ f.via = "http" => f.response = "409"

(***************************************************************************)
(* C20: when an approve with alwaysAllow that approved its request         *)
(* completes, the rule generated from the request is in the allow list and *)
(* no request is pending whose rules verdict (evaluateRules on its         *)
(* category and match target) is allow: each such request was resolved     *)
(* approved by auto.  Symmetrically for a deny with alwaysDeny.            *)
(***************************************************************************)
Completes(i) ==
  /\ i \in 1..Len(flows')
  /\ flows'[i].stage = "done"
  /\ (i > Len(flows) \/ flows[i].stage # "done")
  /\ flows'[i].always
  /\ flows'[i].ok = "true"

VerdictOf(rs, req) == evaluateRules(rs, req.category, getMatchTarget(req))

C20_Step ==
  \A i \in 1..MaxFlows :
    Completes(i) =>
      LET f    == flows'[i]
          type == IF f.kind = "approve" THEN "allow" ELSE "deny"
          st   == IF f.kind = "approve" THEN "approved" ELSE "denied"
      IN /\ \E k \in 1..Len(rules'[type]) : rules'[type][k] = f.rule
         /\ f.rule = generateRule(requests'[f.id].category, requests'[f.id].action)
         /\ \A id \in DOMAIN requests' :
               VerdictOf(rules', requests'[id]) = type
                 => requests'[id].status # "pending"
         /\ \A id \in DOMAIN requests :
               ( /\ requests[id].status = "pending"
                 /\ id # f.id
                 /\ VerdictOf(rules', requests'[id]) = type )
               => /\ requests'[id].status = st
                  /\ requests'[id].resolvedBy = "auto"

C20_AlwaysResolvesMatching == [][C20_Step]_vars

\* the HTTP handler run from st to its end with no other handler served
\* while it awaits
httpRun(st, f) ==
  LET fh == [f EXCEPT !.via = "http"]
      status == IF f.kind = "approve" THEN "approved" ELSE "denied"
      s1 == IF f.kind = "approve" THEN approveRest(st, fh) ELSE decide(st, fh, "denied")
      s2 == IF s1.flow.stage = "savingProposal"
            THEN alwaysPart(s1, s1.flow, "approved") ELSE s1
  IN IF s2.flow.stage = "saving"
     THEN [s2 EXCEPT !.q = autoResolveMatching(s2.q, s2.rules, status)]
     ELSE s2

\* the flow i as it stood before this step, when the step runs the WebSocket
\* handler of flow i to its end
WsRuns(i) ==
  /\ i \in 1..Len(flows')
  /\ flows'[i].via = "ws"
  /\ flows'[i].stage = "done"
  /\ (i > Len(flows) \/ flows[i].stage # "done")

FlowBefore(i) ==
  IF i > Len(flows)
  THEN NewFlow(flows'[i].kind, "ws", flows'[i].id, flows'[i].always)
  ELSE flows[i]

(***************************************************************************)
(* C21: a WebSocket approve or deny message leaves the requests of the     *)
(* queue, the config and the rule lists in the state in which the HTTP     *)
(* approve or deny call for the same request and flags leaves them from    *)
(* the same starting state.                                                *)
(***************************************************************************)
C21_Step ==
  \A i \in 1..MaxFlows :
    WsRuns(i) =>
      LET h == httpRun(ST, FlowBefore(i)) IN
        /\ requests' = h.q.requests
        /\ rules' = h.rules
        /\ categories' = h.categories
        /\ files' = h.files

C21_WebSocketLikeHttp == [][C21_Step]_vars

\* the sandbox requests that carry a proposal
WithProposal(reqs) ==
  { id \in DOMAIN reqs :
      reqs[id].category = "sandbox" /\ reqs[id].proposal # NoProposal }

\* this step runs applyConfigChange on the proposal of request id
AppliesProposal(id) ==
  \E i \in 1..Len(flows') :
    /\ flows'[i].id = id
    /\ flows'[i].proposalApplied
    /\ (i > Len(flows) \/ ~flows[i].proposalApplied)

(***************************************************************************)
(* C22: the proposal of a sandbox request is applied to the config exactly *)
(* in the step in which the request goes from pending to approved: never   *)
(* for a request that is denied or by an approve that returns false, and   *)
(* always when the request becomes approved.                               *)
(***************************************************************************)
C22_Step ==
  \A id \in WithProposal(requests) :
    AppliesProposal(id) <=>
      (requests[id].status = "pending" /\ requests'[id].status = "approved")

C22_ProposalAppliedIffApproved == [][C22_Step]_vars

(***************************************************************************)
(* C23: in both proxy paths, for a host that is not on the allowlist, a    *)
(* matching network deny rule yields 403 and a matching network allow rule *)
(* lets the request proceed, in either case without a permission request   *)
(* being enqueued and whatever the network mode is.                        *)
(***************************************************************************)
C23_ProxyRulesBeforeMode ==
  \A i \in 1..Len(proxies) :
    LET p == proxies[i] IN
    ~p.allowed =>
      /\ p.verdict = "deny"  => (p.response = "403-policy" /\ p.qid = 0 - 1)
      /\ p.verdict = "allow" => (p.response = "proceed" /\ p.qid = 0 - 1)

\* the proxy request p went on without a permission request
Passed(p, response) == p.response = response /\ p.qid = 0 - 1

\* the proxy request p enqueued network request p.qid and blocks on its
\* waiter: no response while the promise is pending, then 200 / fetch when
\* it yields true and 403 when it yields false
Queued(p) ==
  /\ p.qid \in DOMAIN requests
  /\ requests[p.qid].category = "network"
  /\ promise[p.qid] = "pending" => p.response = "none"
  /\ p.response \in {"none", "proceed", "403-denied"}
  /\ p.response = "proceed" => promise[p.qid] = "true"
  /\ p.response = "403-denied" => promise[p.qid] = "false"

\* one permission request per proxy request that enqueued, none for the others
OnePerQueued ==
  /\ counter = Cardinality({ i \in 1..Len(proxies) : proxies[i].qid # 0 - 1 })
  /\ \A i, j \in 1..Len(proxies) :
        (i # j /\ proxies[i].qid # 0 - 1) => proxies[i].qid # proxies[j].qid

NoRuleNoAllowlist(p) == ~p.allowed /\ p.verdict = "null"

(***************************************************************************)
(* C24 as stated: when the host is not allow-listed and no rule matches,   *)
(* allow-all proceeds without enqueuing, deny-all returns 403 without      *)
(* enqueuing, approve-bulk proceeds without enqueuing, and approve-each    *)
(* enqueues exactly one network request and blocks on its waiter.          *)
(***************************************************************************)
C24_ModeTableAsStated ==
  /\ OnePerQueued
  /\ \A i \in 1..Len(proxies) :
       LET p == proxies[i] IN
       NoRuleNoAllowlist(p) =>
         /\ p.mode = "allow-all"    => Passed(p, "proceed")
         /\ p.mode = "deny-all"     => Passed(p, "403-policy")
         /\ p.mode = "approve-bulk" => Passed(p, "proceed")
         /\ p.mode = "approve-each" => Queued(p)

(***************************************************************************)
(* C24 amended: when the host is not allow-listed and no rule matches,     *)
(* allow-all proceeds without enqueuing, deny-all returns 403 without      *)
(* enqueuing, and approve-bulk and approve-each both enqueue exactly one   *)
(* network request and block on its waiter.                                *)
(***************************************************************************)
C24_ModeTable ==
  /\ OnePerQueued
  /\ \A i \in 1..Len(proxies) :
       LET p == proxies[i] IN
       NoRuleNoAllowlist(p) =>
         /\ p.mode = "allow-all"    => Passed(p, "proceed")
         /\ p.mode = "deny-all"     => Passed(p, "403-policy")
         /\ p.mode = "approve-bulk" => Queued(p)
         /\ p.mode = "approve-each" => Queued(p)

C24_Witness ==
  \E i \in 1..Len(proxies) :
    /\ NoRuleNoAllowlist(proxies[i])
    /\ proxies[i].mode = "approve-bulk"
    /\ proxies[i].qid # 0 - 1
    /\ proxies[i].response = "proceed"
    /\ \E j \in 1..Len(proxies) :
          NoRuleNoAllowlist(proxies[j]) /\ proxies[j].mode = "deny-all"

\* file k of the call s was copied by the call and mapped to true
SyncedTrue(s, k) == s.copied[k] /\ s.results[k] = "true"

(***************************************************************************)
(* C25: requestFileSync decides each file by rules before mode.  A file    *)
(* matching a filesystem deny rule maps to false, is never copied and no   *)
(* request is enqueued for it; a file matching an allow rule is copied and *)
(* maps to true whatever the mode is, with no request enqueued; a file     *)
(* with no rule verdict is copied under allow-all and otherwise gets a     *)
(* filesystem request and is copied if and only if that request is         *)
(* approved.  The rules do not change while the calls run.                 *)
(***************************************************************************)
C25_FileSyncRulesBeforeMode ==
  \A i \in 1..Len(syncs) :
    LET s == syncs[i] IN
    \A k \in 1..Len(s.files) :
      LET v == evaluateRules(rules, "filesystem", s.files[k]) IN
        /\ v = "deny" =>
              /\ ~s.copied[k] /\ s.qids[k] = 0 - 1
              /\ s.stage = "done" => s.results[k] = "false"
        /\ v = "allow" =>
              /\ s.qids[k] = 0 - 1
              /\ s.results[k] # "false"
              /\ s.stage = "done" => SyncedTrue(s, k)
        /\ (v = "null" /\ s.mode = "allow-all") =>
              /\ s.qids[k] = 0 - 1
              /\ s.results[k] # "false"
              /\ s.stage = "done" => SyncedTrue(s, k)
        /\ (v = "null" /\ s.mode # "allow-all") =>
              /\ s.copied[k] => (s.qids[k] # 0 - 1 /\ requests[s.qids[k]].status = "approved")
              /\ s.stage = "done" =>
                    /\ s.qids[k] # 0 - 1
                    /\ s.copied[k] <=> requests[s.qids[k]].status = "approved"
                    /\ s.results[k] = (IF s.copied[k] THEN "true" ELSE "false")

(***************************************************************************)
(* C26: requestGitSync applies rules, then mode, then queue.  With a       *)
(* matching git deny rule it returns false without pushing or enqueuing;   *)
(* with a matching git allow rule it pushes without enqueuing; and the     *)
(* push is run only when the branch is allowed by rule, the mode read was  *)
(* allow-all, or the queued git request was approved.  The rules do not    *)
(* change while the calls run.                                             *)
(***************************************************************************)
C26_GitSyncRulesModeQueue ==
  \A i \in 1..Len(gitSyncs) :
    LET g == gitSyncs[i]
        v == evaluateRules(rules, "git", g.branch)
    IN /\ v = "deny" =>
             /\ ~g.pushed /\ g.qid = 0 - 1 /\ g.result # "true"
             /\ g.stage = "done"
             /\ g.result = "false"
       /\ v = "allow" =>
             /\ g.qid = 0 - 1 /\ g.result # "false"
             /\ g.stage = "done" => (g.pushed /\ g.result = "true")
       /\ g.pushed =>
             \/ v = "allow"
             \/ g.mode = "allow-all"
             \/ (g.qid # 0 - 1 /\ requests[g.qid].status = "approved")

(***************************************************************************)
(* C27: a pending exec or packages request is only ever approved           *)
(* individually: no step that is a bulk operation (bulkResolve, reached by *)
(* POST /api/queue/bulk) takes an exec or packages request from pending to *)
(* approved.                                                               *)
(***************************************************************************)
C27_Step ==
  \A id \in DOMAIN requests :
    ( /\ requests[id].category \in {"exec", "packages"}
      /\ requests[id].status = "pending"
      /\ requests'[id].status = "approved" )
    => lastCall'.op # "bulkResolve"

C27_NoBulkApproveOfHardened == [][C27_Step]_vars

\* the status edges of the broker records with a step through approved
EdgesAsStated ==
  { <<"pending", "approved">>, <<"approved", "running">>,
    <<"running", "completed">>, <<"running", "failed">>,
    <<"pending", "denied">> }

\* the status edges without the status approved
EdgesDirect ==
  { <<"pending", "running">>,
    <<"running", "completed">>, <<"running", "failed">>,
    <<"pending", "denied">> }

\* every record of recs keeps its status in this step or follows an edge
Along(edges, recs, recsNext) ==
  \A i \in 1..Len(recs) :
    \/ recsNext[i].status = recs[i].status
    \/ <<recs[i].status, recsNext[i].status>> \in edges

(***************************************************************************)
(* C28 as stated: the status of an ExecRequest or PackageRequest changes   *)
(* only along pending -> approved -> running -> completed | failed, or     *)
(* pending -> denied.                                                      *)
(***************************************************************************)
C28_StepAsStated ==
  /\ Along(EdgesAsStated, execRequests, execRequests')
  /\ Along(EdgesAsStated, pkgRequests, pkgRequests')

C28_StatusEdgesAsStated == [][C28_StepAsStated]_vars

(***************************************************************************)
(* C28 amended: the status of an ExecRequest or PackageRequest changes     *)
(* only along pending -> running -> completed | failed, or pending ->      *)
(* denied: a queued record goes from pending straight to running when its  *)
(* request is approved, no record ever has the status approved, and        *)
(* denied, completed and failed are terminal.                              *)
(***************************************************************************)
C28_Step ==
  /\ Along(EdgesDirect, execRequests, execRequests')
  /\ Along(EdgesDirect, pkgRequests, pkgRequests')
  /\ \A i \in 1..Len(execRequests') : execRequests'[i].status # "approved"
  /\ \A i \in 1..Len(pkgRequests') : pkgRequests'[i].status # "approved"

C28_StatusEdges == [][C28_Step]_vars

C28_Witness ==
  /\ \E i \in 1..Len(execRequests) :
        /\ execRequests[i].idKind = "req"
        /\ execRequests[i].status = "completed"
        /\ requests[execRequests[i].qid].status = "approved"
  /\ \E i \in 1..Len(pkgRequests) :
        /\ pkgRequests[i].idKind = "req"
        /\ pkgRequests[i].status = "denied"

\* the broker records whose run exceeded the timeout
TimedOut(recs) == { i \in 1..Len(recs) : recs[i].result.timedOut }

(***************************************************************************)
(* C29: when a command run by the exec or package broker exceeds its       *)
(* timeout, the record ends with result.exitCode 124, stderr ending in     *)
(* "\n[timed out]", and status failed.                                     *)
(***************************************************************************)
C29_TimeoutFails ==
  /\ \A i \in TimedOut(execRequests) :
        /\ execRequests[i].result.exitCode = 124
        /\ execRequests[i].result.stderrEnd = "\n[timed out]"
        /\ execRequests[i].status = "failed"
  /\ \A i \in TimedOut(pkgRequests) :
        /\ pkgRequests[i].result.exitCode = 124
        /\ pkgRequests[i].result.stderrEnd = "\n[timed out]"
        /\ pkgRequests[i].status = "failed"

\* rule is listed in the list `type` of the current rules
Listed(type, rule) == \E i \in 1..Len(rules[type]) : rules[type][i] = rule

\* the rule strings parseRule rejects: an unknown category, an empty pattern
Unparsable == { r \in RuleStrings : ~parseRule(r).ok }

(***************************************************************************)
(* C30: addRule(type, rule) returns false and leaves both rule lists       *)
(* unchanged when the rule string does not parse or is already in that     *)
(* list; otherwise it appends the rule at the end of that list, leaves the *)
(* other list unchanged, and returns true.                                 *)
(***************************************************************************)
C30_Step ==
  \A t \in {"allow", "deny"}, r \in RuleStrings :
    AddRule(t, r) =>
      IF r \in Unparsable \/ Listed(t, r)
      THEN /\ cfgCall'.ret = FALSE
           /\ rules' = rules
      ELSE /\ cfgCall'.ret = TRUE
           /\ rules'[t] = Append(rules[t], r)
           /\ \A u \in {"allow", "deny"} \ {t} : rules'[u] = rules[u]

C30_AddRule == [][C30_Step]_vars

\* an add was rejected after exec(ls) had been appended to the allow list
C30_Witness ==
  /\ Unparsable = {rBogus, rExecEmpty}
  /\ cfgCall = [op |-> "addRule", ret |-> FALSE]
  /\ rules.allow = <<rExecLs>>
  /\ rules.deny = <<>>

(***************************************************************************)
(* C31: every request that has left pending (a resolve that returned true) *)
(* has exactly one entry of the audit log, carrying its id, category,      *)
(* action and decision; a request still pending has none.                  *)
(***************************************************************************)
AuditEntriesOf(id) == { i \in 1..Len(auditLog) : auditLog[i].id = id }

C31_ResolveAudited ==
  \A id \in DOMAIN requests :
    IF requests[id].status = "pending"
    THEN AuditEntriesOf(id) = {}
    ELSE /\ Cardinality(AuditEntriesOf(id)) = 1
         /\ \A i \in AuditEntriesOf(id) :
              /\ auditLog[i].category = requests[id].category
              /\ auditLog[i].action = requests[id].action
              /\ auditLog[i].decision = requests[id].status

(***************************************************************************)
(* C32: no word beginning with `-` that is outside SAFE_FLAGS occurs in a  *)
(* command line the package broker has started to run, and                 *)
(* parsePackageCommand returns only flags of SAFE_FLAGS and no package     *)
(* beginning with `-`.                                                     *)
(***************************************************************************)
Elems(seq) == { seq[i] : i \in 1..Len(seq) }

UnlistedFlags(command) ==
  { t \in Elems(tokens(command, <<>>)) : isFlag(t) /\ t \notin SAFE_FLAGS }

\* the command lines a client can type for the bodies submitted
PkgCommands ==
  { join(<<in.manager, in.action>> \o in.packages) : in \in PkgFlagInputs }

C32_OnlyWhitelistedFlags ==
  /\ \A i \in 1..Len(pkgRequests) :
       pkgRequests[i].status \in {"running", "completed", "failed"} =>
         UnlistedFlags(pkgRequests[i].command) = {}
  /\ \A c \in PkgCommands :
       LET p == parsePackageCommand(c) IN
         /\ Elems(p.flags) \subseteq SAFE_FLAGS
         /\ \A a \in Elems(p.packages) : ~isFlag(a)

(***************************************************************************)
(* C33: at most one flush timer is outstanding at any time; a request or   *)
(* successful resolve leaves exactly one timer outstanding, also when one  *)
(* was outstanding before it; and while the process runs every mutation is *)
(* eventually followed by a write of the request list that includes it:    *)
(* from a state with a timer outstanding, each request of the list is      *)
(* eventually in the queue file, with its decision if it has one.          *)
(***************************************************************************)
Mutated == requests' # requests

C33_Step ==
  Mutated => (timers' = 1 /\ persistTimer')

Written(id, status) ==
  /\ id \in DOMAIN queueFile
  /\ status # "pending" => queueFile[id].status = status

C33_WritesCoalesced ==
  /\ [](timers <= 1 /\ (persistTimer <=> timers = 1))
  /\ [][C33_Step]_vars
  /\ \A id \in AllIds, st \in Statuses \cup {"pending"} :
       (timers = 1 /\ id \in DOMAIN requests /\ requests[id].status = st)
         ~> Written(id, st)

\* the queue file holds two requests, one of them approved, every mutation
\* made is in it and no timer or write is outstanding
C33_Witness ==
  /\ Cardinality(DOMAIN queueFile) = 2
  /\ \E id \in DOMAIN queueFile : queueFile[id].status = "approved"
  /\ Len(writes) = 0
  /\ queueFile = requests
  /\ timers = 0
  /\ ~persistTimer

(***************************************************************************)
(* C34: the watcher skips exactly the paths under .git/ and node_modules/: *)
(* a change event for any other path puts the path in the flush batch, a   *)
(* path in the batch is eventually flushed (copied if it exists, removed   *)
(* if not), and no path under .git/ or node_modules/ is ever copied.       *)
(***************************************************************************)
UnderSkippedDir(p) == StartsWith(p, sGitDir) \/ StartsWith(p, sNodeModules)

C34_Step ==
  /\ \A p \in Paths :
       (WatchEvent(p) /\ ~UnderSkippedDir(p)) => p \in watch'.pending
  /\ \A p \in Paths :
       (p \in watch.pending /\ p \notin watch'.pending)
         => watch'.mirror[p] \in {"copied", "removed"}

C34_MirrorSkipsExactly ==
  /\ [][C34_Step]_vars
  /\ [](\A p \in Paths : UnderSkippedDir(p) => watch.mirror[p] # "copied")
  /\ \A p \in Paths : (p \in watch.pending) ~> (p \notin watch.pending)

(***************************************************************************)
(* C35: every filesystem request with a metadata.toolName whose status is  *)
(* approved has had applyFilesystemRequest succeed for it in an approve    *)
(* handler, whichever way it was approved.                                 *)
(***************************************************************************)
AppliedFor(id) ==
  \E i \in 1..Len(flows) : flows[i].id = id /\ flows[i].applied = "ok"

C35_ApprovedWasApplied ==
  \A id \in DOMAIN requests :
    ( /\ requests[id].category = "filesystem"
      /\ requests[id].toolName # "none"
      /\ requests[id].status = "approved" ) => AppliedFor(id)

(***************************************************************************)
(* C36: an approve handler (HTTP or WebSocket) in which                    *)
(* applyFilesystemRequest has written the workspace file found its request *)
(* pending when it started and approved it itself: nothing is written for  *)
(* a request that was already approved or denied, or that someone else     *)
(* resolved while the apply was awaited.                                   *)
(***************************************************************************)
C36_ApplyOnlyForPendingApproved ==
  \A i \in 1..Len(flows) :
    flows[i].applied = "ok" =>
      /\ flows[i].wasPending
      /\ flows[i].ok = "true"
      /\ requests[flows[i].id].status = "approved"

(***************************************************************************)
(* C37: when the server has been started again after a graceful shutdown,  *)
(* no request that init() loaded from the persisted queue file is pending. *)
(***************************************************************************)
C37_NoPendingLoaded ==
  lastCall.op = "init" =>
    \A id \in DOMAIN requests : requests[id].status # "pending"

(***************************************************************************)
(* C38: once stopLiveSync() has been called, no live-sync work begins: no  *)
(* readiness poll starts the mirror, no rsync tick runs, no debounced      *)
(* flush copies or removes a file; and no timer or watcher of the mirror   *)
(* stays set.                                                              *)
(***************************************************************************)
C38_NoLiveSyncAfterStop ==
  /\ liveSync.late = {}
  /\ watch.late = {}
  /\ liveSync.stopped => ~liveSync.syncTimer
  /\ watch.stopped => ~watch.watcher

(***************************************************************************)
(* C39: the shutdown sequence runs at most once per process: a second      *)
(* trigger starts no second fullSync, and the end of the final sync, the   *)
(* shutdown broadcast and the exit occur at most once each.                *)
(***************************************************************************)
Occurrences(type) == Cardinality({ i \in 1..Len(log) : log[i].type = type })

C39_ShutdownOnce ==
  /\ liveSync.fullSyncs <= 1
  /\ Occurrences("fullSync") <= 1
  /\ Occurrences("shutdown") <= 1
  /\ Occurrences("exit") <= 1

(***************************************************************************)
(* SpecRules: the rules engine applied to every bounded rule set.          *)
(***************************************************************************)
InitRules ==
  /\ rules \in RuleSets
  /\ categories = DefaultCategories
  /\ allowedEndpoints = DefaultEndpoints
  /\ evalArgs = [category |-> "network", target |-> <<>>]
  /\ verdict = "unset"
  /\ modeArgs = "network"
  /\ modeResult = "unset"
  /\ cfgCall = NoCall
  /\ InitQueue
  /\ InitSys

NextRules == \E c \in Categories, t \in Targets : EvaluateRules(c, t)

SpecRules == InitRules /\ [][NextRules]_vars

(***************************************************************************)
(* SpecConfig: the category modes of the config store.                     *)
(***************************************************************************)
InitConfig ==
  /\ rules = NoRules
  /\ categories = DefaultCategories
  /\ allowedEndpoints = DefaultEndpoints
  /\ evalArgs = [category |-> "network", target |-> <<>>]
  /\ verdict = "unset"
  /\ modeArgs = "network"
  /\ modeResult = "unset"
  /\ cfgCall = NoCall
  /\ InitQueue
  /\ InitSys

\* the categories whose entries the callers of this specification touch: the
\* two hardened ones and one ordinary one
ConfigCats == {"exec", "packages", "network"}

NextConfig ==
  \/ \E c \in ConfigCats, m \in Modes : SetCategoryMode(c, m)
  \/ \E p \in ConfigPaths, v \in CatValues :
        /\ p[1] = "categories" => p[2] \in ConfigCats
        /\ ApplyConfigChange(p, v)
  \/ \E f \in PersistedCategories : LoadConfig(f)
  \/ \E c \in ConfigCats : GetCategoryMode(c)

SpecConfig == InitConfig /\ [][NextConfig]_vars

\* POST /api/rules with every rule string of the inputs
NextAddRule ==
  \E t \in {"allow", "deny"}, r \in RuleStrings : AddRule(t, r)

SpecAddRule == InitConfig /\ [][NextAddRule]_vars

(***************************************************************************)
(* C7: getCategoryMode("exec") and getCategoryMode("packages") are         *)
(* "approve-each" in every reachable config state, and every read of them  *)
(* made by a caller returned "approve-each".                               *)
(***************************************************************************)
C7_HardenedModeAlwaysApproveEach ==
  /\ \A c \in {"exec", "packages"} : getCategoryMode(c) = "approve-each"
  /\ (modeResult # "unset" /\ modeArgs \in {"exec", "packages"})
        => modeResult = "approve-each"

\* a read of the exec mode while the stored exec entry says allow-all
C7_Witness ==
  /\ modeResult = "approve-each"
  /\ modeArgs = "exec"
  /\ categories.defined
  /\ categories.map["exec"] = "allow-all"

(***************************************************************************)
(* C8: evaluateRules returns deny whenever some deny rule of the category  *)
(* matches the target; allow only when no deny rule of the category        *)
(* matches and some allow rule of the category matches; null otherwise;    *)
(* the rules of other categories do not influence the verdict.             *)
(***************************************************************************)
\* the rule parses, is of this category and its pattern matches the target
RuleMatches(rule, category, target) ==
  /\ parseRule(rule).ok
  /\ parseRule(rule).category = CatChars(category)
  /\ matchPattern(parseRule(rule).pattern, target, category)

\* the list without the rules of other categories
RECURSIVE OnlyCategory(_, _)
OnlyCategory(list, category) ==
  IF list = <<>> THEN <<>>
  ELSE IF parseRule(Head(list)).ok /\ parseRule(Head(list)).category = CatChars(category)
       THEN <<Head(list)>> \o OnlyCategory(Tail(list), category)
       ELSE OnlyCategory(Tail(list), category)

C8_EvaluateDenyFirst ==
  verdict # "unset" =>
    LET c == evalArgs.category
        t == evalArgs.target
        denyMatch  == \E i \in 1..Len(rules.deny) : RuleMatches(rules.deny[i], c, t)
        allowMatch == \E i \in 1..Len(rules.allow) : RuleMatches(rules.allow[i], c, t)
    IN /\ denyMatch => verdict = "deny"
       /\ verdict = "deny" => denyMatch
       /\ verdict = "allow" => (~denyMatch /\ allowMatch)
       /\ verdict \in {"allow", "deny", "null"}
       /\ verdict = "null" =>
            \A i \in 1..Len(rules.allow) :
               RuleMatches(rules.allow[i], c, t) =>
                  /\ c \in {"exec", "packages"}
                  /\ parseRule(rules.allow[i]).pattern = <<"*">>
       /\ verdict = evaluateRules([allow |-> OnlyCategory(rules.allow, c),
                                   deny  |-> OnlyCategory(rules.deny, c)], c, t)

\* an evaluation where a deny rule and an allow rule both match
C8_Witness ==
  /\ verdict = "deny"
  /\ \E i \in 1..Len(rules.allow) :
        RuleMatches(rules.allow[i], evalArgs.category, evalArgs.target)
  /\ \E i \in 1..Len(rules.deny) :
        RuleMatches(rules.deny[i], evalArgs.category, evalArgs.target)

(***************************************************************************)
(* C9: for category exec or packages an allow rule that is the bare        *)
(* category name or the category with pattern "*" in parentheses never     *)
(* makes evaluateRules return allow:                                       *)
(* a verdict allow always rests on another allow rule that matches, and    *)
(* when the only matching allow rules are of that form and no deny rule    *)
(* matches the verdict is null.                                            *)
(***************************************************************************)
IsBlanket(rule, category) ==
  \/ rule = CatChars(category)
  \/ rule = CatChars(category) \o <<"(", "*", ")">>

C9_BlanketAllowIgnored ==
  (verdict # "unset" /\ evalArgs.category \in {"exec", "packages"}) =>
    LET c == evalArgs.category
        t == evalArgs.target
        otherAllow == \E i \in 1..Len(rules.allow) :
                         /\ ~IsBlanket(rules.allow[i], c)
                         /\ RuleMatches(rules.allow[i], c, t)
        denyMatch  == \E i \in 1..Len(rules.deny) : RuleMatches(rules.deny[i], c, t)
    IN /\ verdict = "allow" => otherAllow
       /\ (~otherAllow /\ ~denyMatch) => verdict = "null"

\* exec evaluated with a blanket exec allow rule present: the verdict is null
C9_Witness ==
  /\ verdict = "null"
  /\ evalArgs.category = "exec"
  /\ \E i \in 1..Len(rules.allow) : IsBlanket(rules.allow[i], "exec")

(***************************************************************************)
(* C40: for exec and packages, evaluateRules never returns allow on        *)
(* account of an allow rule whose pattern matches every target, be it `*`  *)
(* or a pattern made only of `*` characters such as `**`: a verdict allow  *)
(* always rests on a matching allow rule of another form.                  *)
(***************************************************************************)
MatchesEverything(rule, category) ==
  \/ IsBlanket(rule, category)
  \/ LET parsed == parseRule(rule) IN
       /\ parsed.ok
       /\ parsed.category = CatChars(category)
       /\ parsed.pattern # <<>>
       /\ \A i \in 1..Len(parsed.pattern) : parsed.pattern[i] = "*"

C40_NoMatchAllAllow ==
  (verdict = "allow" /\ evalArgs.category \in {"exec", "packages"}) =>
    \E i \in 1..Len(rules.allow) :
      /\ ~MatchesEverything(rules.allow[i], evalArgs.category)
      /\ RuleMatches(rules.allow[i], evalArgs.category, evalArgs.target)

====
